---- MODULE Spec2Model ----
(***************************************************************************)
(* A model of the Gorilla Troop orchestrator.                              *)
(*                                                                         *)
(* Part 1: the Agent Execution Engine                                      *)
(* (src/orchestrator/engine/agent_engine.py).                              *)
(*                                                                         *)
(* The engine runs on one asyncio event loop.  An action of this model is  *)
(* one uninterrupted run of a coroutine between two suspension points (or  *)
(* one timer callback): everything the code does without awaiting is one   *)
(* atomic step.  Wall-clock time is abstracted: a deadline may expire at   *)
(* any moment at which the timer is armed.                                 *)
(***************************************************************************)
EXTENDS Integers, Sequences, FiniteSets, TLC

\* ------------------------------------------------------------------ bounds
MaxAgents == 2
MaxConcurrent == 2
MaxWorkers == 2
MaxConditional == 1
MaxArtifacts == 1

\* ------------------------------------------------------------ enumerations
\* AgentInstance.status values.
Statuses == {"starting", "running", "stopping", "stopped", "error"}

\* AgentInstance.is_active
is_active(status) == status \in {"starting", "running"}

\* A runner is an arbitrary coroutine function.  It is represented by how it
\* answers a cancellation request at its suspension point: "cooperative" lets
\* CancelledError propagate, "uncancellable" swallows it and keeps running.
RunnerKinds == {"cooperative", "uncancellable"}

\* Worker types: "Scout" has a registered runner from start-up on,
\* "UnknownType" has none then.
AgentTypes == {"Scout", "UnknownType"}

\* What a runner does when it is first called: suspend at an await, return
\* without ever suspending, or raise without ever suspending.
FirstOutcomes == {"suspend", "return", "raise"}

AgentIds == 1..MaxAgents

VARIABLES
    ceiling,         \* EngineConfig.max_concurrent_agents
    runners,         \* _runners: worker type -> registered runner
    agents,          \* _agents: agent id -> [status, agent_type]
    tasks,           \* _tasks: agent id -> the asyncio.Task running _run_agent
    semaphore,       \* _semaphore: [value, waiters]
    shutdown_event,  \* _shutdown_event.is_set()
    shutdown_pc,     \* where the shutdown() coroutine is
    stop_waiting,    \* agent id -> some stop_agent() call is awaiting its task
    raised,          \* the exception that left the last public call, or "none"
    issues,          \* the issue store: issue id -> issue
    contexts,        \* agent id -> the context its spawn_agent call was given
    results,         \* agent id -> what its runner returned to _run_agent
    handled,         \* agent ids whose completion was given to handle_completion
    approving,       \* review gates whose approve_review call is in its broadcast
    outbox,          \* the send_message calls made on the message bus, in order
    files,           \* the workspace: path -> content of the file there
    notifications,   \* NotificationManager: [_by_id, _heap]
    registry,        \* ProjectRegistry: [_projects, disk]
    call             \* the last call of build_dispatch (its arguments and, once
                     \* built, the dispatch) or of ProjectMinder._execute

\* The state of the supervisor, the review routes and the workers they spawn.
minderVars == <<issues, contexts, results, handled, approving>>

\* The services beside the engine: the message bus, the workspace files, the
\* notification queue and the project registry.  Only the worker, queue and
\* registry specifications below use them; in the others the message bus is not
\* reachable (every send is caught and logged) and the rest is left alone.
serviceVars == <<outbox, files, notifications, registry>>

\* Everything AgentEngine does not own.
nonEngineVars == <<minderVars, serviceVars, call>>

vars == <<ceiling, runners, agents, tasks, semaphore, shutdown_event, shutdown_pc,
          stop_waiting, raised, issues, contexts, results, handled, approving,
          outbox, files, notifications, registry, call>>

\* ------------------------------------------------------------------- tasks
\* A task record:
\*   state     "created"    scheduled by create_task, first step not yet run
\*             "waiting"    suspended in _semaphore.acquire()
\*             "running"    suspended inside wait_for(runner(...))
\*             "done"       _run_agent returned (the runner's result or
\*                          {"error": str(e)}) or ended with CancelledError
\*             "timed_out"  _run_agent returned {"error": "timeout"}
\*             "raised"     _run_agent ended with another exception
\*   fut       the semaphore waiter future: "none", "pending", "result"
\*             (woken: the slot is already taken on its behalf), "cancelled"
\*   cancelReq a cancellation request is waiting to be thrown into the task
\*   external  Task.cancel() was called by stop_agent or shutdown
\*   expired   the wait_for deadline fired
\*   runner    the runner _run_agent looked up (line 118) and is calling,
\*             "unset" while it calls none
NewTask == [state |-> "created", fut |-> "none", cancelReq |-> FALSE,
            external |-> FALSE, expired |-> FALSE, runner |-> "unset"]

\* asyncio.Task.done()
TaskDone(t) == t.state \in {"done", "timed_out", "raised"}

\* ---------------------------------------------------------------- semaphore
\* asyncio.Semaphore, as _run_agent uses it.  The operators below work on a
\* record st = [agents, tasks, semaphore] that one step threads through.

\* Faulty variant of Locked: the count of free slots is not looked at.
LockedIgnoresValue(st) ==
    \E k \in 1..Len(st.semaphore.waiters) :
        st.tasks[st.semaphore.waiters[k]].fut # "cancelled"

\* Semaphore.locked(): no free slot, or a waiter that was not cancelled is queued.
Locked(st) ==
    \/ st.semaphore.value = 0
    \/ \E k \in 1..Len(st.semaphore.waiters) :
           st.tasks[st.semaphore.waiters[k]].fut # "cancelled"

PendingWaiters(st) ==
    {k \in 1..Len(st.semaphore.waiters) :
        st.tasks[st.semaphore.waiters[k]].fut = "pending"}

\* Semaphore._wake_up_next(): hand a slot to the first waiter not yet done.
WakeUpNext(st) ==
    IF PendingWaiters(st) = {} THEN st
    ELSE LET k == CHOOSE m \in PendingWaiters(st) :
                      \A n \in PendingWaiters(st) : m <= n
             id == st.semaphore.waiters[k]
         IN [st EXCEPT !.semaphore.value = @ - 1, !.tasks[id].fut = "result"]

\* The loop at the end of acquire(): wake waiters while slots are free.
RECURSIVE WakeWhileFree(_)
WakeWhileFree(st) ==
    IF st.semaphore.value > 0 /\ PendingWaiters(st) # {}
    THEN WakeWhileFree(WakeUpNext(st))
    ELSE st

\* Semaphore.release()
Release(st) == WakeUpNext([st EXCEPT !.semaphore.value = @ + 1])

\* Remove a task's waiter future from the queue (the finally in acquire()).
RemoveWaiter(st, id) ==
    [st EXCEPT !.semaphore.waiters = SelectSeq(@, LAMBDA w : w # id)]

\* ------------------------------------------------------------ status writes
\* instance.status = new
SetStatus(st, id, new) == [st EXCEPT !.agents[id].status = new]

Start == [agents |-> agents, tasks |-> tasks, semaphore |-> semaphore]

\* Commit a threaded record as the next state.
Commit(st) ==
    /\ agents' = st.agents
    /\ tasks' = st.tasks
    /\ semaphore' = st.semaphore

\* -------------------------------------------------------------- _run_agent
\* The task is done: its bookkeeping no longer matters.
EndTask(st, id, outcome) ==
    [st EXCEPT !.tasks[id] = [NewTask EXCEPT !.state = outcome]]

\* The finally block of _run_agent (line 143), then the task is done.
FinishTask(st, id, outcome) == Release(EndTask(st, id, outcome))

\* The runner returned: lines 128-130, then the finally.
RunnerReturned(st, id) == FinishTask(SetStatus(st, id, "stopped"), id, "done")

\* Faulty variant of RunnerRaised: no except clause catches the runner's exception; it
\* leaves _run_agent through the finally.
RunnerRaisedUncaught(st, id) == FinishTask(st, id, "raised")

\* The runner raised an Exception: lines 137-140, then the finally.
RunnerRaised(st, id) == FinishTask(SetStatus(st, id, "error"), id, "done")

\* Faulty variant of RunnerTimedOut: the timeout path returns without the release.
RunnerTimedOutNoRelease(st, id) ==
    EndTask(SetStatus(st, id, "error"), id, "timed_out")

\* wait_for raised TimeoutError: lines 132-135, then the finally.
RunnerTimedOut(st, id) == FinishTask(SetStatus(st, id, "error"), id, "timed_out")

\* CancelledError left wait_for: no except clause matches, only the finally runs.
RunnerCancelled(st, id) == FinishTask(st, id, "done")

\* Faulty variant of EnterTry: the runner is called without the "runner is None" test,
\* so that a missing runner leaves the task suspended.
EnterTryNoLookup(st, id, first) ==
    LET st1 == SetStatus(st, id, "running") IN
    CASE first = "suspend" ->
             [st1 EXCEPT !.tasks[id].state = "running",
                         !.tasks[id].runner =
                             IF st.agents[id].agent_type \in DOMAIN runners
                             THEN runners[st.agents[id].agent_type]
                             ELSE "unset"]
      [] first = "return"  -> RunnerReturned(st1, id)
      [] first = "raise"   -> RunnerRaised(st1, id)

\* The try block from its start, the slot already taken: lines 115-126.
EnterTry(st, id, first) ==
    LET st1 == SetStatus(st, id, "running") IN
    IF st.agents[id].agent_type \notin DOMAIN runners
    THEN RunnerRaised(st1, id)
    ELSE CASE first = "suspend" ->
                  [st1 EXCEPT !.tasks[id].state = "running",
                              !.tasks[id].runner = runners[st.agents[id].agent_type]]
           [] first = "return"  -> RunnerReturned(st1, id)
           [] first = "raise"   -> RunnerRaised(st1, id)

\* acquire() on the task's first step (line 113): take a free slot, or queue up.
AcquireFirst(st, id, first) ==
    IF ~Locked(st)
    THEN EnterTry([st EXCEPT !.semaphore.value = @ - 1], id, first)
    ELSE [st EXCEPT !.semaphore.waiters = Append(@, id),
                    !.tasks[id].state = "waiting",
                    !.tasks[id].fut = "pending"]

\* acquire() resumed with the slot: leave the queue, wake others, go on.
AcquireResumed(st, id, first) ==
    EnterTry(WakeWhileFree(RemoveWaiter([st EXCEPT !.tasks[id].fut = "none"], id)),
             id, first)

\* Faulty variant of AcquireCancelled: a slot that was already handed over is
\* not given back.
AcquireCancelledKeepsSlot(st, id) ==
    WakeWhileFree(RemoveWaiter(EndTask(st, id, "done"), id))

\* acquire() resumed by a cancellation: leave the queue, give back a slot that
\* was already handed over, wake others, and let CancelledError leave _run_agent
\* (acquire is outside the try block: no status write, no release).
AcquireCancelled(st, id) ==
    LET had == st.tasks[id].fut = "result"
        st1 == RemoveWaiter(EndTask(st, id, "done"), id)
        st2 == IF had THEN [st1 EXCEPT !.semaphore.value = @ + 1] ELSE st1
    IN WakeWhileFree(st2)

\* The first step of the task created by spawn_agent.  A task cancelled before
\* its first step never runs any code of _run_agent.
TaskStart(id) ==
    /\ id \in DOMAIN tasks
    /\ tasks[id].state = "created"
    /\ IF tasks[id].cancelReq
       THEN Commit(EndTask(Start, id, "done"))
       ELSE \E first \in FirstOutcomes : Commit(AcquireFirst(Start, id, first))
    /\ UNCHANGED <<nonEngineVars, ceiling, runners, shutdown_event, shutdown_pc, stop_waiting, raised>>

\* A queued task resumes: admitted, or cancelled while it waited.
TaskAdmit(id) ==
    /\ id \in DOMAIN tasks
    /\ tasks[id].state = "waiting"
    /\ tasks[id].fut = "result" \/ tasks[id].cancelReq
    /\ IF tasks[id].cancelReq
       THEN Commit(AcquireCancelled(Start, id))
       ELSE \E first \in FirstOutcomes : Commit(AcquireResumed(Start, id, first))
    /\ UNCHANGED <<nonEngineVars, ceiling, runners, shutdown_event, shutdown_pc, stop_waiting, raised>>

\* The runner returns a result.
RunnerReturn(id) ==
    /\ id \in DOMAIN tasks
    /\ tasks[id].state = "running" /\ ~tasks[id].cancelReq
    /\ Commit(RunnerReturned(Start, id))
    /\ UNCHANGED <<nonEngineVars, ceiling, runners, shutdown_event, shutdown_pc, stop_waiting, raised>>

\* The runner raises an Exception.
RunnerRaise(id) ==
    /\ id \in DOMAIN tasks
    /\ tasks[id].state = "running" /\ ~tasks[id].cancelReq
    /\ Commit(RunnerRaised(Start, id))
    /\ UNCHANGED <<nonEngineVars, ceiling, runners, shutdown_event, shutdown_pc, stop_waiting, raised>>

\* The wait_for deadline (agent_timeout_seconds, armed on admission) fires:
\* the timer callback requests the task's cancellation.
Timeout(id) ==
    /\ id \in DOMAIN tasks
    /\ tasks[id].state = "running" /\ ~tasks[id].expired
    /\ Commit([Start EXCEPT !.tasks[id].expired = TRUE,
                            !.tasks[id].cancelReq = TRUE])
    /\ UNCHANGED <<nonEngineVars, ceiling, runners, shutdown_event, shutdown_pc, stop_waiting, raised>>

\* Faulty variant of CancelDelivered: an expired deadline is not told apart from a
\* cancellation (TimeoutError is not caught).
CancelDeliveredNoTimeout(st, id) ==
    IF st.tasks[id].runner = "cooperative"
    THEN RunnerCancelled(st, id)
    ELSE [st EXCEPT !.tasks[id].cancelReq = FALSE]

\* A cancellation request reaches the runner at its suspension point.  A
\* cooperative runner lets it propagate: wait_for turns it into TimeoutError
\* when its deadline fired and nobody else asked for the cancellation, and
\* lets CancelledError through otherwise.  An uncancellable runner swallows it.
CancelDelivered(st, id) ==
    IF st.tasks[id].runner = "cooperative"
    THEN IF st.tasks[id].expired /\ ~st.tasks[id].external
         THEN RunnerTimedOut(st, id)
         ELSE RunnerCancelled(st, id)
    ELSE [st EXCEPT !.tasks[id].cancelReq = FALSE]

DeliverCancel(id) ==
    /\ id \in DOMAIN tasks
    /\ tasks[id].state = "running" /\ tasks[id].cancelReq
    /\ Commit(CancelDelivered(Start, id))
    /\ UNCHANGED <<nonEngineVars, ceiling, runners, shutdown_event, shutdown_pc, stop_waiting, raised>>

\* ------------------------------------------------------------- spawn_agent
\* Faulty variant of spawn_agent: the shutdown flag is not tested.
spawn_agent_unguarded(agent_type) ==
    /\ LET id == Cardinality(DOMAIN agents) + 1 IN
       /\ id <= MaxAgents
       /\ agents' = agents @@
              (id :> [status |-> "starting", agent_type |-> agent_type])
       /\ tasks' = tasks @@ (id :> NewTask)
       /\ raised' = "none"
    /\ UNCHANGED <<nonEngineVars, ceiling, runners, semaphore, shutdown_event, shutdown_pc,
                   stop_waiting>>

\* spawn_agent(agent_type, ...): raises while shutting down; otherwise records
\* a starting instance under a fresh id and creates its task.
spawn_agent(agent_type) ==
    /\ IF shutdown_event
       THEN /\ raised' = "shutting_down"
            /\ UNCHANGED <<agents, tasks>>
       ELSE LET id == Cardinality(DOMAIN agents) + 1 IN
            /\ id <= MaxAgents
            /\ agents' = agents @@
                   (id :> [status |-> "starting", agent_type |-> agent_type])
            /\ tasks' = tasks @@ (id :> NewTask)
            /\ raised' = "none"
    /\ UNCHANGED <<nonEngineVars, ceiling, runners, semaphore, shutdown_event, shutdown_pc, stop_waiting>>

\* -------------------------------------------------------------- stop_agent
\* Faulty variant of CancelTask: the cancellation is never requested.
CancelTaskForgotten(st, id) == st

\* Task.cancel(): no effect on a task that is done; otherwise the request is
\* recorded, and a waiter future still pending is cancelled at once.
CancelTask(st, id) ==
    IF TaskDone(st.tasks[id]) THEN st
    ELSE [st EXCEPT !.tasks[id] =
             [@ EXCEPT !.cancelReq = TRUE, !.external = TRUE,
                       !.fut = IF @ = "pending" THEN "cancelled" ELSE @]]

\* stop_agent(agent_id) up to its await: lines 152-161.  With the task already
\* done nothing is awaited and the call runs to its end.
stop_agent(id) ==
    /\ IF id \notin DOMAIN agents
       THEN UNCHANGED <<agents, tasks, semaphore, stop_waiting>>
       ELSE LET st1 == SetStatus(Start, id, "stopping") IN
            IF TaskDone(tasks[id])
            THEN /\ Commit(SetStatus(st1, id, "stopped"))
                 /\ UNCHANGED stop_waiting
            ELSE /\ Commit(CancelTask(st1, id))
                 /\ stop_waiting' = [stop_waiting EXCEPT ![id] = TRUE]
    /\ raised' = "none"
    /\ UNCHANGED <<nonEngineVars, ceiling, runners, shutdown_event, shutdown_pc>>

\* One stop_agent call resumes from wait_for(shield(task), 5.0), lines 161-165:
\* the task is done, or the 5 s passed.  A cancellation request is thrown into
\* the task on the loop's next iteration, so the 5 s can pass only after it was
\* delivered.  An exception of the task other than CancelledError leaves
\* stop_agent.  Any number of calls may be waiting for the same task: after
\* this one, others may be left or not.
stop_agent_resume(id) ==
    /\ id \in DOMAIN agents
    /\ stop_waiting[id]
    /\ TaskDone(tasks[id]) \/ ~tasks[id].cancelReq
    /\ \E more \in BOOLEAN : stop_waiting' = [stop_waiting EXCEPT ![id] = more]
    /\ IF tasks[id].state = "raised"
       THEN /\ raised' = "task_exception"
            /\ UNCHANGED <<agents, tasks, semaphore>>
       ELSE /\ raised' = "none"
            /\ Commit(SetStatus(Start, id, "stopped"))
    /\ UNCHANGED <<nonEngineVars, ceiling, runners, shutdown_event, shutdown_pc>>

\* ---------------------------------------------------------------- shutdown
RECURSIVE MarkStopped(_, _)
\* "Mark all remaining as stopped": lines 196-198.
MarkStopped(st, ids) ==
    IF ids = {} THEN st
    ELSE LET id == CHOOSE i \in ids : TRUE
             st1 == IF is_active(st.agents[id].status)
                    THEN SetStatus(st, id, "stopped") ELSE st
         IN MarkStopped(st1, ids \ {id})

\* Faulty variant of CancelAll: the pending tasks are left alone.
CancelNone(st, ids) == st

RECURSIVE CancelAll(_, _)
\* "for task in pending: task.cancel()": lines 192-193.
CancelAll(st, ids) ==
    IF ids = {} THEN st
    ELSE LET id == CHOOSE i \in ids : TRUE
         IN CancelAll(CancelTask(st, id), ids \ {id})

\* shutdown()'s active_tasks (line 189).  No task is created once the shutdown
\* flag is set, so the tasks asyncio.wait reports pending are exactly those
\* still not done when shutdown resumes.
ActiveTasks(st) == {id \in DOMAIN st.tasks : ~TaskDone(st.tasks[id])}

\* shutdown(timeout) up to its await: lines 186-191.  With no task left to
\* wait for, the call runs to its end.
shutdown ==
    /\ shutdown_pc = "idle"
    /\ shutdown_event' = TRUE
    /\ IF ActiveTasks(Start) = {}
       THEN /\ Commit(MarkStopped(Start, DOMAIN agents))
            /\ shutdown_pc' = "returned"
       ELSE /\ Commit(Start)
            /\ shutdown_pc' = "waiting"
    /\ raised' = "none"
    /\ UNCHANGED <<nonEngineVars, ceiling, runners, stop_waiting>>

\* shutdown resumes from asyncio.wait, lines 191-200: every task is done or the
\* timeout passed; it cancels what is pending and marks the active instances
\* stopped.
shutdown_resume ==
    /\ shutdown_pc = "waiting"
    /\ Commit(MarkStopped(CancelAll(Start, ActiveTasks(Start)), DOMAIN agents))
    /\ shutdown_pc' = "returned"
    /\ UNCHANGED <<nonEngineVars, ceiling, runners, shutdown_event, stop_waiting, raised>>

\* ---------------------------------------------------------- specification
\* No supervisor, no review route and no worker takes part.
NoMinder ==
    /\ issues = <<>>
    /\ contexts = <<>>
    /\ results = <<>>
    /\ handled = {}
    /\ approving = {}

\* Nothing was sent, written, queued or registered.
NoServices ==
    /\ outbox = <<>>
    /\ files = <<>>
    /\ notifications = [_by_id |-> <<>>, _heap |-> <<>>]
    /\ registry = [_projects |-> <<>>, disk |-> "absent"]

\* build_dispatch is not called.
NoCall == call = [at |-> "unused"]

\* AgentEngine.__init__ for every ceiling up to the bound, then the runners
\* registered at start-up (register_runner, as wire_engine calls it).
Init ==
    /\ ceiling \in 1..MaxConcurrent
    /\ runners \in [{"Scout"} -> RunnerKinds]
    /\ agents = <<>>
    /\ tasks = <<>>
    /\ semaphore = [value |-> ceiling, waiters |-> <<>>]
    /\ shutdown_event = FALSE
    /\ shutdown_pc = "idle"
    /\ stop_waiting = [id \in AgentIds |-> FALSE]
    /\ raised = "none"
    /\ NoMinder
    /\ NoServices
    /\ NoCall

Next ==
    \/ \E t \in AgentTypes : spawn_agent(t)
    \/ \E id \in AgentIds : TaskStart(id)
    \/ \E id \in AgentIds : TaskAdmit(id)
    \/ \E id \in AgentIds : RunnerReturn(id)
    \/ \E id \in AgentIds : RunnerRaise(id)
    \/ \E id \in AgentIds : Timeout(id)
    \/ \E id \in AgentIds : DeliverCancel(id)
    \/ \E id \in AgentIds : stop_agent(id)
    \/ \E id \in AgentIds : stop_agent_resume(id)
    \/ shutdown
    \/ shutdown_resume

Spec == Init /\ [][Next]_vars

\* Faulty variant of Registration: a type that has a runner keeps it.
RegistrationKeepsFirst(registered, agent_type, runner) ==
    registered @@ (agent_type :> runner)

\* register_runner, lines 59-66: the runner replaces the one registered for
\* the worker type, if any.
Registration(registered, agent_type, runner) ==
    (agent_type :> runner) @@ registered

\* A caller registers a runner while the engine works.  The call is noted
\* with the instances of the type that were not yet admitted then.
register_runner(agent_type, runner) ==
    /\ runners' = Registration(runners, agent_type, runner)
    /\ call' = [at |-> "register_runner", agent_type |-> agent_type,
                runner |-> runner,
                starting |-> {id \in DOMAIN tasks :
                                 /\ agents[id].agent_type = agent_type
                                 /\ tasks[id].state \in {"created", "waiting"}
                                 /\ \/ agent_type \notin DOMAIN runners
                                    \/ runner # runners[agent_type]}]
    /\ UNCHANGED <<minderVars, serviceVars, ceiling, agents, tasks, semaphore,
                   shutdown_event, shutdown_pc, stop_waiting, raised>>

\* The engine with one slot, and runners registered at any time.
RegisterInit == Init /\ ceiling = 1

RegisterNext ==
    \/ Next
    \/ \E agent_type \in AgentTypes, runner \in RunnerKinds :
          register_runner(agent_type, runner)

RegisterSpec == RegisterInit /\ [][RegisterNext]_vars

\* The engine with runners that let a cancellation propagate, under the
\* scheduling the event loop guarantees: a task that is ready to run is run
\* (TaskStart, TaskAdmit, DeliverCancel), an armed timer fires (Timeout, the
\* 5 s of stop_agent, the timeout of shutdown).  Nothing obliges a runner to
\* return or raise, nor a caller to spawn, stop or shut down.
FairInit == Init /\ runners["Scout"] = "cooperative"

Fairness ==
    /\ \A id \in AgentIds : WF_vars(TaskStart(id))
    /\ \A id \in AgentIds : WF_vars(TaskAdmit(id))
    /\ \A id \in AgentIds : WF_vars(DeliverCancel(id))
    /\ \A id \in AgentIds : WF_vars(Timeout(id))
    /\ \A id \in AgentIds : WF_vars(stop_agent_resume(id))
    /\ WF_vars(shutdown_resume)

FairSpec == FairInit /\ [][Next]_vars /\ Fairness

\* ========================================================= build_dispatch
\* STAGE_AGENT_MAP: stage name -> default agent type.
STAGE_AGENT_MAP ==
    [s \in {"workspace-detection", "reverse-engineering"} |-> "Scout"] @@
    [s \in {"requirements-analysis", "functional-design"} |-> "Sage"] @@
    [s \in {"user-stories"} |-> "Bard"] @@
    [s \in {"workflow-planning", "units-generation"} |-> "Planner"] @@
    [s \in {"application-design", "infrastructure-design"} |-> "Architect"] @@
    [s \in {"nfr-requirements", "nfr-design"} |-> "Steward"] @@
    [s \in {"code-generation"} |-> "Forge"] @@
    [s \in {"build-and-test"} |-> "Crucible"]

\* AGENT_CLASSES: the agent types wire_engine registers a runner for.
AGENT_CLASSES ==
    {"Harmbe", "ProjectMinder", "Scout", "Sage", "Bard", "Planner", "Architect",
     "Steward", "Forge", "Crucible", "Troop"}

\* Python's None, and the values the "or" operator treats as absent.
None == "<None>"
Falsy(x) == x \in {None, ""}

\* A or B
Or(a, b) == IF Falsy(a) THEN b ELSE a

\* dict.get(key, default)
Get(map, key, default) == IF key \in DOMAIN map THEN map[key] ELSE default

\* Faulty variant of build_dispatch: the stage map is read without a default.
build_dispatch_no_default(stage_name, beads_issue_id, stage_type, assigned_agent) ==
    LET effective_stage_type == Or(stage_type, stage_name)
        effective_agent ==
            Or(assigned_agent, Get(STAGE_AGENT_MAP, effective_stage_type, None))
    IN [stage_name |-> stage_name,
        stage_type |-> effective_stage_type,
        beads_issue_id |-> beads_issue_id,
        assigned_agent |-> effective_agent]

\* build_dispatch(stage_name, beads_issue_id, ..., stage_type=, assigned_agent=):
\* the fields of the DispatchMessage that depend on the stage.
build_dispatch(stage_name, beads_issue_id, stage_type, assigned_agent) ==
    LET effective_stage_type == Or(stage_type, stage_name)
        effective_agent ==
            Or(assigned_agent, Get(STAGE_AGENT_MAP, effective_stage_type, "Troop"))
    IN [stage_name |-> stage_name,
        stage_type |-> effective_stage_type,
        beads_issue_id |-> beads_issue_id,
        assigned_agent |-> effective_agent]

\* Stage names a caller may pass: the mapped ones, one that is not mapped, and
\* the empty string.
StageInputs == DOMAIN STAGE_AGENT_MAP \cup {"deployment", ""}

\* Overrides a caller may pass: none, an empty one, a mapped and an unmapped one.
StageTypeInputs == {None, "", "code-generation", "deployment"}
AssignedAgentInputs == {None, "", "Troop", "Gibbon"}

\* The engine as create_app and wire_engine leave it: nothing spawned, a
\* cooperative runner registered for every type of AGENT_CLASSES.
WiredEngine ==
    /\ ceiling \in 1..MaxConcurrent
    /\ runners = [t \in AGENT_CLASSES |-> "cooperative"]
    /\ agents = <<>>
    /\ tasks = <<>>
    /\ semaphore = [value |-> ceiling, waiters |-> <<>>]
    /\ shutdown_event = FALSE
    /\ shutdown_pc = "idle"
    /\ stop_waiting = [id \in AgentIds |-> FALSE]
    /\ raised = "none"

engineVars == <<ceiling, runners, agents, tasks, semaphore, shutdown_event,
                shutdown_pc, stop_waiting, raised>>

\* A caller is about to call build_dispatch with some arguments.
DispatchInit ==
    /\ WiredEngine
    /\ NoMinder
    /\ NoServices
    /\ call \in [at : {"args"},
                 stage_name : StageInputs,
                 stage_type : StageTypeInputs,
                 assigned_agent : AssignedAgentInputs]

\* The call is made.
BuildDispatch ==
    /\ call.at = "args"
    /\ call' = [call EXCEPT !.at = "built"] @@
               [dispatch |-> build_dispatch(call.stage_name, "gt-1",
                                            call.stage_type, call.assigned_agent)]
    /\ UNCHANGED <<engineVars, minderVars, serviceVars>>

DispatchNext == BuildDispatch

DispatchSpec == DispatchInit /\ [][DispatchNext]_vars

\* ============================================================ issue store
\* The external issue store, as orchestrator.lib.beads.client reaches it.  Every
\* call is answered: a store that is absent or fails is not part of this model.
\* An issue is a record
\*   issue_type  "epic" or "task"
\*   phase       the phase:<...> label
\*   stage       the stage:<slug> label, "" when the issue has none
\*   gate        the issue carries the label type:review-gate
\*   status      "open", "in_progress" or "done"
\*   priority    lower is more urgent
\*   notes       the lines of the notes field
\*   parent      the issue of its "parent" dependency, 0 when it has none
\*   blockers    the issues of its "blocks" dependencies
\*   project     the key of its project:<key> label
\* and its id is its position in the store.

\* The project the supervisor is run for.
_project_key == "proj-a"

\* An issue the supervisor creates: it carries the supervisor's project label.
NewIssue(issue_type, priority, phase, stage, gate, notes) ==
    [issue_type |-> issue_type, phase |-> phase, stage |-> stage, gate |-> gate,
     status |-> "open", priority |-> priority, notes |-> notes,
     parent |-> 0, blockers |-> {}, project |-> _project_key]

\* create_issue: the new issue gets the next id.
create_issue(store, issue) == Append(store, issue)

\* Faulty variant of add_dependency: every dependency is stored as a parent
\* link, none blocks.
add_dependency_as_parent(store, blocked_id, blocker_id, dep_type) ==
    [store EXCEPT ![blocked_id].parent = blocker_id]

\* add_dependency(blocked_id, blocker_id, dep_type)
add_dependency(store, blocked_id, blocker_id, dep_type) ==
    IF dep_type = "blocks"
    THEN [store EXCEPT ![blocked_id].blockers = @ \cup {blocker_id}]
    ELSE [store EXCEPT ![blocked_id].parent = blocker_id]

\* update_issue(issue_id, status=...)
update_status(store, issue_id, status) ==
    [store EXCEPT ![issue_id].status = status]

\* update_issue(issue_id, append_notes=...), the text given as its lines.
append_notes(store, issue_id, lines) ==
    [store EXCEPT ![issue_id].notes = @ \o lines]

\* ready(): the open issues none of whose blockers is unfinished.
ready(store) ==
    {i \in DOMAIN store :
        /\ store[i].status = "open"
        /\ \A b \in store[i].blockers : store[b].status = "done"}

\* ========================================================== ProjectMinder
\* One project.  The supervisor's operations are the actions _execute routes
\* to; none of them suspends (the store and the message bus are called
\* synchronously and spawn_agent has no await), so each is one step.

\* Faulty variant of STAGE_TO_CHIMP: functional-design goes to the Architect.
STAGE_TO_CHIMP_redrawn ==
    [s \in {"workspace-detection", "reverse-engineering"} |-> "Scout"] @@
    [s \in {"requirements-analysis"} |-> "Sage"] @@
    [s \in {"user-stories"} |-> "Bard"] @@
    [s \in {"workflow-planning", "units-generation"} |-> "Planner"] @@
    [s \in {"application-design", "infrastructure-design",
            "functional-design"} |-> "Architect"] @@
    [s \in {"nfr-requirements", "nfr-design"} |-> "Steward"] @@
    [s \in {"code-generation"} |-> "Forge"] @@
    [s \in {"build-and-test"} |-> "Crucible"]

\* STAGE_TO_CHIMP: the table _advance_workflow looks the worker up in.
STAGE_TO_CHIMP ==
    [s \in {"workspace-detection", "reverse-engineering"} |-> "Scout"] @@
    [s \in {"requirements-analysis", "functional-design"} |-> "Sage"] @@
    [s \in {"user-stories"} |-> "Bard"] @@
    [s \in {"workflow-planning", "units-generation"} |-> "Planner"] @@
    [s \in {"application-design", "infrastructure-design"} |-> "Architect"] @@
    [s \in {"nfr-requirements", "nfr-design"} |-> "Steward"] @@
    [s \in {"code-generation"} |-> "Forge"] @@
    [s \in {"build-and-test"} |-> "Crucible"]

\* conditional_stages of _initialize_project, in its order.
conditional_stages ==
    <<"reverse-engineering", "user-stories", "application-design",
      "units-generation">>

\* The record one supervisor or route step threads through: the engine's part
\* (agents, tasks, semaphore), the store, the contexts and the results, and, in
\* call, what the last _advance_workflow chose and which worker type it found.
MStart ==
    [agents |-> agents, tasks |-> tasks, semaphore |-> semaphore,
     issues |-> issues, contexts |-> contexts, results |-> results,
     call |-> call]

MCommit(m) ==
    /\ Commit(m)
    /\ issues' = m.issues
    /\ contexts' = m.contexts
    /\ results' = m.results
    /\ call' = m.call

\* A runner has not returned yet.
NoResult == [status |-> "none", artifacts |-> 0, error |-> ""]

\* A context without a dispatch message.
NoDispatch == build_dispatch("", 0, None, None)

\* The context of one spawn_agent call: the keys of the dict, the dispatch
\* message under "dispatch" and the issue the other keys name.
Context(keys, dispatch, ref) == [keys |-> keys, dispatch |-> dispatch, ref |-> ref]

\* engine.spawn_agent(agent_type, context) as its callers see it: they catch
\* the RuntimeError of an engine that shuts down and go on.
SpawnInstance(m, agent_type, context) ==
    IF shutdown_event THEN m
    ELSE LET id == Cardinality(DOMAIN m.agents) + 1 IN
         [m EXCEPT !.agents = @ @@ (id :> [status |-> "starting",
                                           agent_type |-> agent_type]),
                   !.tasks = @ @@ (id :> NewTask),
                   !.contexts = @ @@ (id :> context),
                   !.results = @ @@ (id :> NoResult)]

\* The scaffold of _initialize_project, lines 130-272: three phase epics, the
\* mandatory inception chain with its two review gates, and the conditional
\* stages, each with its gate and not wired into the chain.
RECURSIVE ScaffoldConditional(_, _, _)
ScaffoldConditional(store, inception_epic, k) ==
    IF k > Len(conditional_stages) \/ k > MaxConditional THEN store
    ELSE LET stage == Len(store) + 1
             review == Len(store) + 2
             s1 == create_issue(store,
                       NewIssue("task", 2, "inception", conditional_stages[k],
                                FALSE, <<>>))
             s2 == add_dependency(s1, stage, inception_epic, "parent")
             s3 == create_issue(s2,
                       NewIssue("task", 0, "inception", "", TRUE, <<>>))
             s4 == add_dependency(s3, review, inception_epic, "parent")
             s5 == add_dependency(s4, review, stage, "blocks")
         IN ScaffoldConditional(s5, inception_epic, k + 1)

Scaffold(store) ==
    LET n == Len(store)
        inception_epic == n + 1
        ws_detect == n + 4
        req_analysis == n + 5
        req_review == n + 6
        wf_planning == n + 7
        wp_review == n + 8
        requirements == <<"artifact: requirements.md">>
        plan == <<"artifact: execution-plan.md">>
        created == store \o
            << NewIssue("epic", 1, "inception", "", FALSE, <<>>),
               NewIssue("epic", 1, "construction", "", FALSE, <<>>),
               NewIssue("epic", 3, "operations", "", FALSE, <<>>),
               NewIssue("task", 1, "inception", "workspace-detection", FALSE, <<>>),
               NewIssue("task", 1, "inception", "requirements-analysis", FALSE,
                        requirements),
               NewIssue("task", 0, "inception", "", TRUE, requirements),
               NewIssue("task", 1, "inception", "workflow-planning", FALSE, plan),
               NewIssue("task", 0, "inception", "", TRUE, plan) >>
        d1 == add_dependency(created, ws_detect, inception_epic, "parent")
        d2 == add_dependency(d1, req_analysis, inception_epic, "parent")
        d3 == add_dependency(d2, req_analysis, ws_detect, "blocks")
        d4 == add_dependency(d3, req_review, inception_epic, "parent")
        d5 == add_dependency(d4, req_review, req_analysis, "blocks")
        d6 == add_dependency(d5, wf_planning, inception_epic, "parent")
        d7 == add_dependency(d6, wf_planning, req_review, "blocks")
        d8 == add_dependency(d7, wp_review, inception_epic, "parent")
        d9 == add_dependency(d8, wp_review, wf_planning, "blocks")
    IN ScaffoldConditional(d9, inception_epic, 1)

\* Faulty variant of Candidates: the ready list comes in any order.
CandidatesInAnyOrder(store) == {i \in ready(store) : store[i].stage # ""}

\* The ready issues _advance_workflow may pick, lines 284-310: the first issue
\* of the ready list that has a stage label.  The store lists the ready
\* issues by priority, the most urgent first; among issues of one priority
\* any may come first.
Candidates(store) ==
    LET staged == {i \in ready(store) : store[i].stage # ""}
    IN {i \in staged : \A j \in staged : store[i].priority <= store[j].priority}

\* Faulty variant of ClaimIssue: the issue is not marked in progress.
ClaimIssueForgotten(m, issue_id) == m

\* _claim_issue
ClaimIssue(m, issue_id) ==
    [m EXCEPT !.issues = update_status(@, issue_id, "in_progress")]

\* What one run of _advance_workflow came to: its next_issue (0: none) and
\* the chimp_type it looked up; at names the action _execute was called with.
Returned(next_issue, chimp_type) ==
    [at |-> "advance", next_issue |-> next_issue, chimp_type |-> chimp_type]

\* _advance_workflow from its choice of next_issue on, lines 312-343.
Dispatch(m, next_issue) ==
    LET stage_name == m.issues[next_issue].stage
        chimp_type == Get(STAGE_TO_CHIMP, stage_name, None)
        m1 == [m EXCEPT !.call = Returned(next_issue, chimp_type)]
    IN IF Falsy(chimp_type) THEN m1
       ELSE LET dispatch == build_dispatch(stage_name, next_issue, None, None)
            IN SpawnInstance(ClaimIssue(m1, next_issue), chimp_type,
                             Context({"dispatch"}, dispatch, 0))

\* _advance_workflow: what it may leave behind.
Advanced(m) ==
    IF Candidates(m.issues) = {} THEN {[m EXCEPT !.call = Returned(0, None)]}
    ELSE {Dispatch(m, i) : i \in Candidates(m.issues)}

\* The guard of _initialize_project, lines 114-126: the project has open
\* inception issues.
HasOpenInception(store) ==
    \E i \in DOMAIN store :
        /\ store[i].phase = "inception" /\ store[i].status = "open"
        /\ store[i].project = _project_key

\* Faulty variant of Initialized: the guard is left out.
InitializedUnguarded(m) == Advanced([m EXCEPT !.issues = Scaffold(@)])

\* _initialize_project
Initialized(m) ==
    IF HasOpenInception(m.issues) THEN Advanced(m)
    ELSE Advanced([m EXCEPT !.issues = Scaffold(@)])

\* The update of _handle_completion, lines 351-373.
CompletionRecorded(m, issue_id, completion) ==
    LET artifact_lines == [k \in 1..completion.artifacts |-> "artifact: produced"]
    IN CASE completion.status = "completed" ->
              [m EXCEPT !.issues =
                  append_notes(update_status(@, issue_id, "done"), issue_id,
                               <<"Completed: summary">> \o artifact_lines)]
         [] completion.status = "needs_rework" ->
              [m EXCEPT !.issues =
                  append_notes(@, issue_id, <<"NEEDS REWORK: reason">>)]
         [] OTHER -> m

\* Faulty variant of HandledCompletion: advance is not run afterwards.
HandledCompletionOnly(m, issue_id, completion) ==
    {CompletionRecorded(m, issue_id, completion)}

\* _handle_completion
HandledCompletion(m, issue_id, completion) ==
    Advanced(CompletionRecorded(m, issue_id, completion))

\* ------------------------------------------------------------ wired runner
\* What a worker's _execute may do under with_retry: return a completion, or
\* leave with_retry with an exception (a permanent error at once, a transient
\* one after MAX_RETRIES retries).
ExecuteOutcomes ==
    [status : {"completed"}, artifacts : 0..MaxArtifacts, error : {""}] \cup
    [status : {"needs_rework"}, artifacts : {0}, error : {""}] \cup
    [status : {"raised"}, artifacts : {0}, error : {"permanent", "exhausted"}]

\* handle_dispatch: the completion of _execute, or a failed completion built
\* from the exception with_retry let through.
handle_dispatch(outcome) ==
    IF outcome.status = "raised"
    THEN [status |-> "failed", artifacts |-> 0, error |-> "error_detail"]
    ELSE outcome

\* What the runner built by _make_runner returns for a context.
RunnerResults(context) ==
    IF "dispatch" \in context.keys
    THEN {handle_dispatch(o) : o \in ExecuteOutcomes}
    ELSE {[status |-> "no_dispatch", artifacts |-> 0, error |-> ""]}

\* How that runner's first step ends: with a dispatch it may wait for the
\* model's answer in an executor; without one it returns at once.
RunnerFirst(context) ==
    IF "dispatch" \in context.keys THEN {"suspend", "return"} ELSE {"return"}

\* _run_agent hands the runner's return value to the task.
WithResult(m, id, result) ==
    IF m.tasks[id].state = "done" /\ m.agents[id].status = "stopped"
    THEN [m EXCEPT !.results[id] = result]
    ELSE m

\* The first step of a spawned instance's task.
WorkerStart(id) ==
    /\ id \in DOMAIN tasks
    /\ tasks[id].state = "created"
    /\ \E first \in RunnerFirst(contexts[id]), r \in RunnerResults(contexts[id]) :
           MCommit(WithResult(AcquireFirst(MStart, id, first), id, r))
    /\ UNCHANGED <<serviceVars, handled, approving, ceiling, runners, shutdown_event,
                   shutdown_pc, stop_waiting, raised>>

\* A queued instance is admitted.
WorkerAdmit(id) ==
    /\ id \in DOMAIN tasks
    /\ tasks[id].state = "waiting"
    /\ tasks[id].fut = "result"
    /\ \E first \in RunnerFirst(contexts[id]), r \in RunnerResults(contexts[id]) :
           MCommit(WithResult(AcquireResumed(MStart, id, first), id, r))
    /\ UNCHANGED <<serviceVars, handled, approving, ceiling, runners, shutdown_event,
                   shutdown_pc, stop_waiting, raised>>

\* A suspended runner returns.
WorkerReturn(id) ==
    /\ id \in DOMAIN tasks
    /\ tasks[id].state = "running"
    /\ \E r \in RunnerResults(contexts[id]) :
           MCommit(WithResult(RunnerReturned(MStart, id), id, r))
    /\ UNCHANGED <<serviceVars, handled, approving, ceiling, runners, shutdown_event,
                   shutdown_pc, stop_waiting, raised>>

\* ------------------------------------------------------- supervisor calls
\* A caller runs ProjectMinder._execute with an action.  Nothing in the
\* repository does so on its own: these are calls from outside.
Within(m) == Cardinality(DOMAIN m.agents) <= MaxWorkers

initialize ==
    /\ \E m \in Initialized(MStart) :
           Within(m) /\ MCommit([m EXCEPT !.call.at = "initialize"])
    /\ UNCHANGED <<serviceVars, handled, approving, ceiling, runners, shutdown_event,
                   shutdown_pc, stop_waiting, raised>>

advance ==
    /\ \E m \in Advanced(MStart) : Within(m) /\ MCommit(m)
    /\ UNCHANGED <<serviceVars, handled, approving, ceiling, runners, shutdown_event,
                   shutdown_pc, stop_waiting, raised>>

\* The completions a caller can pass on: those of returned dispatches.
Completions ==
    {id \in DOMAIN results :
        /\ "dispatch" \in contexts[id].keys
        /\ results[id].status \in {"completed", "needs_rework", "failed"}}

handle_completion(id) ==
    /\ id \in Completions \ handled
    /\ \E m \in HandledCompletion(MStart, contexts[id].dispatch.beads_issue_id,
                                  results[id]) :
           Within(m) /\ MCommit([m EXCEPT !.call.at = "handle_completion"])
    /\ handled' = handled \cup {id}
    /\ UNCHANGED <<serviceVars, approving, ceiling, runners, shutdown_event,
                   shutdown_pc, stop_waiting, raised>>

\* ------------------------------------------------------------ review routes
\* The operator decides on the gates list_reviews shows: the open ones.
Gates == {i \in DOMAIN issues : issues[i].gate /\ issues[i].status = "open"}

\* ReviewDecision.feedback: what the operator writes when rejecting, and when
\* approving (an approval mostly comes without a comment).
FeedbackInputs == {"", "tighten scope"}

ApproveInputs == {""}

Approved(feedback) ==
    IF feedback = "" THEN "APPROVED." ELSE "APPROVED. Feedback: tighten scope"

Rejected(feedback) ==
    IF feedback = "" THEN "REJECTED: " ELSE "REJECTED: tighten scope"

\* approve_review, lines 183-217: the gate is done, the approval is noted.
ApprovalRecorded(m, issue_id, feedback) ==
    [m EXCEPT !.issues = append_notes(update_status(@, issue_id, "done"),
                                      issue_id, <<Approved(feedback)>>)]

\* approve_review, lines 223-237.
MinderSpawned(m, issue_id) ==
    SpawnInstance(m, "ProjectMinder",
        Context({"project_key", "workspace_root", "action", "approved_review_id"},
                NoDispatch, issue_id))

\* approve_review: broadcast waits when a client is connected; otherwise the
\* call runs to its end in one step.  A call is taken up only while the
\* instance it will spawn still fits, so that a call begun can always end.
approve_review(issue_id) ==
    /\ issue_id \in Gates \ approving
    /\ \E feedback \in ApproveInputs, waits \in BOOLEAN :
           LET m1 == ApprovalRecorded(MStart, issue_id, feedback)
               m2 == IF waits THEN m1 ELSE MinderSpawned(m1, issue_id)
           IN /\ Cardinality(DOMAIN agents) + Cardinality(approving) < MaxWorkers
              /\ MCommit(m2)
              /\ approving' = IF waits THEN approving \cup {issue_id} ELSE approving
    /\ UNCHANGED <<serviceVars, handled, ceiling, runners, shutdown_event,
                   shutdown_pc, stop_waiting, raised>>

\* approve_review goes on after the broadcast.
approve_review_resume(issue_id) ==
    /\ issue_id \in approving
    /\ Cardinality(DOMAIN agents) < MaxWorkers
    /\ MCommit(MinderSpawned(MStart, issue_id))
    /\ approving' = approving \ {issue_id}
    /\ UNCHANGED <<serviceVars, handled, ceiling, runners, shutdown_event,
                   shutdown_pc, stop_waiting, raised>>

\* reject_review up to the spawn, lines 272-304; the broadcast comes last.
RejectionHandled(m, issue_id, feedback) ==
    SpawnInstance(
        [m EXCEPT !.issues = append_notes(@, issue_id, <<Rejected(feedback)>>)],
        "Gibbon",
        Context({"review_gate_id", "feedback", "artifact_path"}, NoDispatch,
                issue_id))

\* The instances reject_review spawned.
Reworkers == {id \in DOMAIN agents : agents[id].agent_type = "Gibbon"}

\* reject_review while the model has room for one more instance.
RejectReview(issue_id, room) ==
    /\ issue_id \in Gates
    /\ room
    /\ \E feedback \in FeedbackInputs :
           MCommit(RejectionHandled(MStart, issue_id, feedback))
    /\ UNCHANGED <<serviceVars, handled, approving, ceiling, runners, shutdown_event,
                   shutdown_pc, stop_waiting, raised>>

reject_review(issue_id) ==
    RejectReview(issue_id, Cardinality(DOMAIN agents) < MaxWorkers)

\* Most rejections in a row.
MaxReworks == 2

\* reject_review, once more: the operator rejects again, whatever else runs.
reject_review_again(issue_id) ==
    RejectReview(issue_id, Cardinality(Reworkers) < MaxReworks)

\* ---------------------------------------------------------- specification
\* An issue somebody filed by hand, with a stage label of no known stage.
ForeignIssue == NewIssue("task", 2, "operations", "deployment", FALSE, <<>>)

\* The wired engine, a store and no call made yet.
MinderOn(store) ==
    /\ WiredEngine
    /\ issues = store
    /\ contexts = <<>>
    /\ results = <<>>
    /\ handled = {}
    /\ approving = {}
    /\ NoServices
    /\ NoCall

\* A new project: the store is empty.
MinderInit == MinderOn(<<>>)

\* A project in whose store the foreign issue was filed.
ForeignInit == MinderOn(<<ForeignIssue>>)

WorkerIds == 1..MaxWorkers

\* The ids a store can hold: the foreign issue and one scaffold.
IssueIds == 1..(1 + 8 + 2 * MaxConditional)

MinderNext ==
    \/ initialize
    \/ advance
    \/ \E id \in WorkerIds : handle_completion(id)
    \/ \E id \in WorkerIds : WorkerStart(id)
    \/ \E id \in WorkerIds : WorkerAdmit(id)
    \/ \E id \in WorkerIds : WorkerReturn(id)
    \/ \E g \in DOMAIN issues : approve_review(g)
    \/ \E g \in DOMAIN issues : approve_review_resume(g)

MinderSpec == MinderInit /\ [][MinderNext]_vars

\* The event loop runs every task that can run; calls from outside come when
\* they come.
WorkerFairness ==
    /\ \A id \in WorkerIds : WF_vars(WorkerStart(id))
    /\ \A id \in WorkerIds : WF_vars(WorkerAdmit(id))
    /\ \A id \in WorkerIds : WF_vars(WorkerReturn(id))
    /\ \A g \in IssueIds : WF_vars(approve_review_resume(g))

MinderFairSpec == MinderInit /\ [][MinderNext]_vars /\ WorkerFairness

ForeignSpec == ForeignInit /\ [][MinderNext]_vars

\* The one store holds a second project's issues too: its first stage, ready
\* or already worked on or finished.
OtherProjectIssue(status) ==
    [NewIssue("task", 1, "inception", "workspace-detection", FALSE, <<>>)
        EXCEPT !.project = "proj-b", !.status = status]

SharedInit ==
    \E status \in {"open", "in_progress", "done"} :
        MinderOn(<<OtherProjectIssue(status)>>)

SharedSpec == SharedInit /\ [][MinderNext]_vars

\* The engine may be shut down while the supervisor is called.
ClosingNext ==
    \/ MinderNext
    \/ shutdown
    \/ shutdown_resume

ClosingSpec == MinderInit /\ [][ClosingNext]_vars

\* The stages STAGE_TO_CHIMP names, in its order.
SupportedStages ==
    <<"workspace-detection", "reverse-engineering", "requirements-analysis",
      "functional-design", "user-stories", "workflow-planning",
      "units-generation", "application-design", "infrastructure-design",
      "nfr-requirements", "nfr-design", "code-generation", "build-and-test">>

\* A project in whose store one issue of every supported stage is ready.
StagesInit ==
    /\ MinderOn([k \in DOMAIN SupportedStages |->
                    NewIssue("task", 1,
                             IF k \in {1, 2, 3, 5, 6, 7, 8} THEN "inception"
                             ELSE "construction",
                             SupportedStages[k], FALSE, <<>>)])
    /\ ceiling = 1

StagesNext ==
    \/ advance
    \/ \E id \in WorkerIds : handle_completion(id)
    \/ \E id \in WorkerIds : WorkerStart(id)
    \/ \E id \in WorkerIds : WorkerAdmit(id)
    \/ \E id \in WorkerIds : WorkerReturn(id)

StagesSpec == StagesInit /\ [][StagesNext]_vars

\* The running service: the review routes and the engine's tasks, on a
\* project that one initialize call has set up.  No supervisor call is part
\* of it, as no code of the service makes one.
ReviewInit ==
    /\ ceiling \in 1..MaxConcurrent
    /\ runners = [t \in AGENT_CLASSES |-> "cooperative"]
    /\ shutdown_event = FALSE
    /\ shutdown_pc = "idle"
    /\ stop_waiting = [id \in AgentIds |-> FALSE]
    /\ raised = "none"
    /\ \E m \in Initialized(
                  [agents |-> <<>>, tasks |-> <<>>,
                   semaphore |-> [value |-> ceiling, waiters |-> <<>>],
                   issues |-> <<>>, contexts |-> <<>>, results |-> <<>>,
                   call |-> [at |-> "unused"]]) :
           /\ agents = m.agents
           /\ tasks = m.tasks
           /\ semaphore = m.semaphore
           /\ issues = m.issues
           /\ contexts = m.contexts
           /\ results = m.results
           /\ call = [m.call EXCEPT !.at = "initialize"]
    /\ handled = {}
    /\ approving = {}
    /\ NoServices

ReviewNext ==
    \/ \E g \in DOMAIN issues : approve_review(g)
    \/ \E g \in DOMAIN issues : approve_review_resume(g)
    \/ \E g \in DOMAIN issues : reject_review(g)
    \/ \E id \in WorkerIds : WorkerStart(id)
    \/ \E id \in WorkerIds : WorkerAdmit(id)
    \/ \E id \in WorkerIds : WorkerReturn(id)

ReviewSpec == ReviewInit /\ [][ReviewNext]_vars

ReviewFairSpec == ReviewInit /\ [][ReviewNext]_vars /\ WorkerFairness

\* An initialized project whose operator rejects review gates over and over.
CycleIds == 1..(MaxWorkers + MaxReworks)

CycleNext ==
    \/ \E issue_id \in IssueIds : reject_review_again(issue_id)
    \/ \E id \in CycleIds : WorkerStart(id)
    \/ \E id \in CycleIds : WorkerAdmit(id)
    \/ \E id \in CycleIds : WorkerReturn(id)

CycleSpec == ReviewInit /\ [][CycleNext]_vars

\* ============================================================== with_retry
\* agents/retry.py.  The operation handed to with_retry is the sequence of what
\* its successive calls do: return ("ok"), raise one of TRANSIENT_ERRORS
\* ("transient") or raise anything else ("permanent").  An error is named by
\* the number of the call that raised it.

\* Largest max_retries a caller passes.
MaxAttempts == 3

\* The default of max_retries.
MAX_RETRIES == 3

FuncOutcomes == {"ok", "transient", "permanent"}

\* except transient_errors
Retriable(outcome) == outcome = "transient"

\* Faulty variant of Exhausted: one more attempt is allowed.
ExhaustedLate(attempt, max_retries) == attempt = max_retries

\* if attempt == max_retries - 1
Exhausted(attempt, max_retries) == attempt = max_retries - 1

\* A caller is about to run with_retry(func, max_retries=n).
RetryInit ==
    /\ WiredEngine
    /\ NoMinder
    /\ NoServices
    /\ \E n \in 1..MaxAttempts :
          call \in [at : {"with_retry"}, max_retries : {n},
                    func : [1..(n + 1) -> FuncOutcomes],
                    attempt : {0}, pc : {"try"}, calls : {0},
                    last_error : {0}, error : {0}, result : {0}]

\* One pass of the loop body, lines 46-66: func is awaited and returns or
\* raises.
RetryAttempt ==
    /\ call.at = "with_retry"
    /\ call.pc = "try"
    /\ call.attempt < call.max_retries
    /\ LET n == call.calls + 1
           outcome == call.func[n]
           called == [call EXCEPT !.calls = n]
       IN call' =
            IF outcome = "ok"
            THEN [called EXCEPT !.pc = "returned", !.result = n]
            ELSE IF Retriable(outcome)
            THEN IF Exhausted(call.attempt, call.max_retries)
                 THEN [called EXCEPT !.pc = "raised", !.last_error = n, !.error = n]
                 ELSE [called EXCEPT !.pc = "sleep", !.last_error = n]
            ELSE [called EXCEPT !.pc = "raised", !.error = n]
    /\ UNCHANGED <<engineVars, minderVars, serviceVars>>

\* asyncio.sleep(delay) is over, line 67: the loop goes round.
RetryWake ==
    /\ call.at = "with_retry"
    /\ call.pc = "sleep"
    /\ call' = [call EXCEPT !.pc = "try", !.attempt = @ + 1]
    /\ UNCHANGED <<engineVars, minderVars, serviceVars>>

\* The task is cancelled while with_retry sleeps: CancelledError leaves it.
RetryCancel ==
    /\ call.at = "with_retry"
    /\ call.pc = "sleep"
    /\ call' = [call EXCEPT !.pc = "cancelled"]
    /\ UNCHANGED <<engineVars, minderVars, serviceVars>>

RetryNext == RetryAttempt \/ RetryWake \/ RetryCancel

RetrySpec == RetryInit /\ [][RetryNext]_vars

\* A caller is about to run with_retry with any max_retries, 0 included.
RetryAnyInit ==
    /\ WiredEngine
    /\ ceiling = 1
    /\ NoMinder
    /\ NoServices
    /\ \E n \in 0..MaxAttempts :
          call \in [at : {"with_retry"}, max_retries : {n},
                    func : [1..(n + 1) -> FuncOutcomes],
                    attempt : {0}, pc : {"try"}, calls : {0},
                    last_error : {0}, error : {0}, result : {0}]

\* What raise does with None: a TypeError of the interpreter's.
TypeError == -1

\* The loop is over, line 69: raise last_error.
RetryFallThrough ==
    /\ call.at = "with_retry"
    /\ call.pc = "try"
    /\ call.attempt >= call.max_retries
    /\ call' = [call EXCEPT !.pc = "raised",
                            !.error = IF call.last_error = 0 THEN TypeError
                                      ELSE call.last_error]
    /\ UNCHANGED <<engineVars, minderVars, serviceVars>>

RetryAnyNext == RetryAttempt \/ RetryWake \/ RetryCancel \/ RetryFallThrough

RetryAnySpec == RetryAnyInit /\ [][RetryAnyNext]_vars

\* ================================================================= workers
\* A worker is built by create_agent with the mail client its caller passes:
\* none ("none", as create_app wires the engine: wire_engine(app.state.engine)),
\* or a client whose send_message goes through ("up") or raises ("down").
MailClients == {"none", "up", "down"}

\* One send_message call: who sent it to whom, the bracketed tag its subject
\* opens with, its importance, and whether the bus took it.
Message(mail, sender, to, subject, importance) ==
    [sender |-> sender, to |-> to, subject |-> subject,
     importance |-> importance, delivered |-> (mail = "up")]

\* build_completion(...): the fields the workers fill in.
Completion(status, output_artifacts, summary, rework_reason, error_detail) ==
    [status |-> status, output_artifacts |-> output_artifacts,
     summary |-> summary, rework_reason |-> rework_reason,
     error_detail |-> error_detail]

\* A text is a sequence of tokens: a code fence ("F", the three backquotes), a
\* newline ("n"), a blank ("s") or visible text ("x").
Tokens == {"F", "n", "s", "x"}

\* Longest model answer.
MaxResponse == 3

RECURSIVE TextsOf(_)
TextsOf(k) ==
    IF k = 0 THEN {<<>>}
    ELSE TextsOf(k - 1) \cup
         {Append(t, c) : t \in {u \in TextsOf(k - 1) : Len(u) = k - 1}, c \in Tokens}

Responses == TextsOf(MaxResponse)

Whitespace == {"n", "s"}

\* str.lstrip, str.rstrip, str.strip
RECURSIVE lstrip(_)
lstrip(t) ==
    IF t # <<>> /\ Head(t) \in Whitespace THEN lstrip(Tail(t)) ELSE t

RECURSIVE rstrip(_)
rstrip(t) ==
    IF t # <<>> /\ t[Len(t)] \in Whitespace
    THEN rstrip(SubSeq(t, 1, Len(t) - 1)) ELSE t

strip(t) == rstrip(lstrip(t))

\* _strip_code_fences, gibbon.py lines 321-333.
_strip_code_fences(text) ==
    LET stripped == strip(text)
        newlines == {i \in 1..Len(stripped) : stripped[i] = "n"}
        first_newline ==
            IF newlines = {} THEN Len(stripped) + 1
            ELSE CHOOSE i \in newlines : \A j \in newlines : i <= j
        opened ==
            IF stripped # <<>> /\ Head(stripped) = "F"
            THEN SubSeq(stripped, first_newline + 1, Len(stripped))
            ELSE stripped
    IN IF opened # <<>> /\ opened[Len(opened)] = "F"
       THEN rstrip(SubSeq(opened, 1, Len(opened) - 1))
       ELSE opened

\* ------------------------------------------------------------------ Gibbon
\* agents/cross_cutting/gibbon.py: the rework worker's _execute, called with a
\* dispatch whose instructions are the JSON of a rework request.

MAX_REWORK_ITERATIONS == 3

\* Largest retry_count a request carries.
MaxRetryCount == 4

Artifact == "requirements.md"

\* What is at a path: a readable file with its text, something read_text
\* fails on, or nothing.
File(text) == [kind |-> "file", text |-> text]
Unreadable == [kind |-> "directory", text |-> <<>>]
Missing == [kind |-> "missing", text |-> <<>>]

\* The rejected artifact.
Original == File(<<"x", "n", "x">>)

\* The rework requests a caller may send: each of artifact_path and feedback
\* given or empty, retry_count absent (<<>>) or a number (<<n>>).
ReworkRequests ==
    [artifact_path : {"", Artifact},
     feedback : {"", "tighten scope"},
     retry_count : {<<>>} \cup {<<n>> : n \in 0..MaxRetryCount}]

\* retry_count = int(rework_ctx.get("retry_count", 0))
RetryCount(request) ==
    IF request.retry_count = <<>> THEN 0 ELSE request.retry_count[1]

\* if retry_count >= MAX_REWORK_ITERATIONS
BudgetSpent(retry_count) == retry_count >= MAX_REWORK_ITERATIONS

\* Faulty variant of Blank: nothing counts as empty.
BlankNever(text) == FALSE

\* if not corrected_content.strip()
Blank(text) == strip(text) = <<>>

NoCompletion == Completion("none", <<>>, "", "", "")

\* A Gibbon built with some mail client is handed a rework request; the
\* artifact is there, is absent, or cannot be read.
ReworkInit ==
    /\ WiredEngine
    /\ NoMinder
    /\ outbox = <<>>
    /\ files \in [{Artifact} -> {Original, Unreadable, Missing}]
    /\ notifications = [_by_id |-> <<>>, _heap |-> <<>>]
    /\ registry = [_projects |-> <<>>, disk |-> "absent"]
    /\ call \in [at : {"Gibbon"}, pc : {"start"}, request : ReworkRequests,
                 mail : MailClients, before : {files}, llm_calls : {0},
                 writes : {0}, response : {<<>>}, completion : {NoCompletion}]

\* _execute returns a completion.
ReworkReturn(completion) ==
    call' = [call EXCEPT !.pc = "returned", !.completion = completion]

\* _escalate_to_harmbe, lines 259-299.
_escalate_to_harmbe ==
    outbox' = IF call.mail = "none" THEN outbox
              ELSE Append(outbox, Message(call.mail, "Gibbon", {"Harmbe"},
                                          "[ESCALATION]", "high"))

\* _execute up to its only suspension, the model's answer: lines 64-192.
ReworkBegin ==
    /\ call.at = "Gibbon"
    /\ call.pc = "start"
    /\ LET request == call.request
           retry_count == RetryCount(request)
           failed(why) == Completion("failed", <<>>, why, "", why)
       IN IF request.artifact_path = ""
          THEN /\ ReworkReturn(failed("No artifact_path provided in rework request"))
               /\ UNCHANGED outbox
          ELSE IF request.feedback = ""
          THEN /\ ReworkReturn(failed("No feedback provided in rework request"))
               /\ UNCHANGED outbox
          ELSE IF BudgetSpent(retry_count)
          THEN /\ _escalate_to_harmbe
               /\ ReworkReturn(
                    Completion("needs_rework", <<>>,
                               "Rework exhausted after 3 iterations. Escalated to Harmbe.",
                               "Max rework iterations (3) exceeded", ""))
          ELSE IF files[request.artifact_path].kind = "missing"
          THEN /\ ReworkReturn(failed("Artifact not found"))
               /\ UNCHANGED outbox
          ELSE IF files[request.artifact_path].kind # "file"
          THEN /\ ReworkReturn(failed("Failed to read artifact"))
               /\ UNCHANGED outbox
          ELSE /\ call' = [call EXCEPT !.pc = "llm", !.llm_calls = @ + 1]
               /\ UNCHANGED outbox
    /\ UNCHANGED <<engineVars, minderVars, files, notifications, registry>>

\* AuditLog.log flushes the entry to the message bus when it has a client.
Audited(result) ==
    outbox' = IF call.mail = "none" THEN outbox
              ELSE Append(outbox, Message(call.mail, "Bonobo", {"Bonobo"},
                                          result, "normal"))

\* The model answered: lines 193-253.  FileGuard.write_file writes the file
\* whole (temp file and replace), refuses (PermissionError, audited) or fails
\* with an OSError; a write that fails leaves the file as it was.
ReworkAnswered ==
    /\ call.at = "Gibbon"
    /\ call.pc = "llm"
    /\ \E response \in Responses, guard \in {"allowed", "denied", "oserror"} :
         LET corrected_content == _strip_code_fences(response)
             path == call.request.artifact_path
             answered == [call EXCEPT !.response = response, !.pc = "returned"]
             failed(why) == Completion("failed", <<>>, why, "", why)
         IN IF Blank(corrected_content)
            THEN /\ call' = [answered EXCEPT !.completion =
                                failed("LLM returned empty rework content")]
                 /\ UNCHANGED <<files, outbox>>
            ELSE IF guard = "denied"
            THEN /\ call' = [answered EXCEPT !.completion =
                                failed("Failed to write corrected artifact")]
                 /\ Audited("[DENIED]")
                 /\ UNCHANGED files
            ELSE IF guard = "oserror"
            THEN /\ call' = [answered EXCEPT !.completion =
                                failed("Failed to write corrected artifact")]
                 /\ UNCHANGED <<files, outbox>>
            ELSE /\ files' = [files EXCEPT ![path] = File(corrected_content)]
                 /\ Audited("[ALLOWED]")
                 /\ call' = [answered EXCEPT
                               !.writes = @ + 1,
                               !.completion =
                                   Completion("completed", <<path>>,
                                              "Rework iteration complete.", "", "")]
    /\ UNCHANGED <<engineVars, minderVars, notifications, registry>>

\* The model call raised: the exception leaves _execute.
ReworkLLMRaised ==
    /\ call.at = "Gibbon"
    /\ call.pc = "llm"
    /\ call' = [call EXCEPT !.pc = "raised"]
    /\ UNCHANGED <<engineVars, minderVars, serviceVars>>

ReworkNext == ReworkBegin \/ ReworkAnswered \/ ReworkLLMRaised

ReworkSpec == ReworkInit /\ [][ReworkNext]_vars

\* --------------------------------------------------------- handle_dispatch
\* agents/base.py: BaseAgent.handle_dispatch runs _execute under with_retry
\* with its defaults.  The subclass's _execute is the operation of the
\* with_retry model above: each of its calls returns a completion or raises.

\* The dispatches a worker is handed, by stage name and issue id.
Dispatches ==
    [stage_name : {"requirements-analysis", "code-generation"},
     beads_issue_id : {"gt-4", "gt-9"}]

\* str(e) of the error raised by the n-th call of _execute.
ErrorText(n) == "error of call " \o ToString(n)

\* The completion the n-th call of _execute returned.
Executed(dispatch, n) ==
    [stage_name |-> dispatch.stage_name,
     beads_issue_id |-> dispatch.beads_issue_id,
     status |-> "completed", output_artifacts |-> <<n>>, summary |-> "done",
     error_detail |-> ""]

\* A worker built with some mail client is handed a dispatch: lines 80-88.
HandleInit ==
    /\ WiredEngine
    /\ NoMinder
    /\ NoServices
    /\ call \in [at : {"with_retry"}, caller : {"handle_dispatch"},
                 agent_type : {"Sage"}, mail : MailClients,
                 dispatch : Dispatches,
                 max_retries : {MAX_RETRIES},
                 func : [1..(MAX_RETRIES + 1) -> FuncOutcomes],
                 attempt : {0}, pc : {"try"}, calls : {0},
                 last_error : {0}, error : {0}, result : {0},
                 completion : {NoCompletion}]

\* with_retry returned: line 89.
HandleReturn ==
    /\ call.at = "with_retry"
    /\ call.caller = "handle_dispatch"
    /\ call.pc = "returned"
    /\ call' = [call EXCEPT !.at = "handle_dispatch",
                            !.completion = Executed(call.dispatch, call.result)]
    /\ UNCHANGED <<engineVars, minderVars, serviceVars>>

\* _report_error, lines 144-170.
_report_error ==
    outbox' = IF call.mail = "none" THEN outbox
              ELSE Append(outbox, Message(call.mail, call.agent_type,
                                          {"CuriousGeorge"}, "[ERROR]", "high"))

\* with_retry raised an Exception: lines 90-105.
HandleFailure ==
    /\ call.at = "with_retry"
    /\ call.caller = "handle_dispatch"
    /\ call.pc = "raised"
    /\ _report_error
    /\ call' = [call EXCEPT
                  !.at = "handle_dispatch",
                  !.pc = "returned",
                  !.completion =
                      [stage_name |-> call.dispatch.stage_name,
                       beads_issue_id |-> call.dispatch.beads_issue_id,
                       status |-> "failed", output_artifacts |-> <<>>,
                       summary |-> "", error_detail |-> ErrorText(call.error)]]
    /\ UNCHANGED <<engineVars, minderVars, files, notifications, registry>>

\* A cancellation during the back-off sleep is no Exception: CancelledError
\* leaves handle_dispatch as it left with_retry.
HandleCancelled ==
    /\ call.at = "with_retry"
    /\ call.caller = "handle_dispatch"
    /\ call.pc = "cancelled"
    /\ call' = [call EXCEPT !.at = "handle_dispatch"]
    /\ UNCHANGED <<engineVars, minderVars, serviceVars>>

HandleNext ==
    \/ RetryAttempt
    \/ RetryWake
    \/ RetryCancel
    \/ HandleReturn
    \/ HandleFailure
    \/ HandleCancelled

HandleSpec == HandleInit /\ [][HandleNext]_vars

\* ----------------------------------------------------------- CuriousGeorge
\* agents/cross_cutting/curious_george.py: the Error Investigator's _execute.
\* The model's answer is a sequence of tokens: an opening brace, a closing
\* brace, the members of a JSON object ("j", what they say is in members) or
\* any other text ("w").
JsonTokens == {"{", "}", "j", "w"}

RECURSIVE AnswersOf(_)
AnswersOf(k) ==
    IF k = 0 THEN {<<>>}
    ELSE AnswersOf(k - 1) \cup
         {Append(t, c) : t \in {u \in AnswersOf(k - 1) : Len(u) = k - 1},
                         c \in JsonTokens}

Answers == AnswersOf(MaxResponse)

\* What the members of the answer's object may say: fix_suggested true, false
\* or left out, target_agent a worker, the human supervisor or left out.
Members ==
    [fix_suggested : {"absent", "true", "false"},
     target_agent : {"absent", "Forge", "Harmbe"}]

\* The conservative default of _parse_llm_analysis, lines 297-302.
Fallback == [fix_suggested |-> "false", target_agent |-> "absent"]

\* json.loads of a balanced block: an object, empty or with its members; any
\* other text inside is not JSON.
json_loads(block, members) ==
    IF block = <<"{", "}">>
    THEN [ok |-> TRUE, data |-> [fix_suggested |-> "absent", target_agent |-> "absent"]]
    ELSE IF block = <<"{", "j", "}">>
    THEN [ok |-> TRUE, data |-> members]
    ELSE [ok |-> FALSE, data |-> Fallback]

\* depth after the characters start..i, lines 284-290.
Depth(response, start, i) ==
    Cardinality({k \in start..i : response[k] = "{"})
    - Cardinality({k \in start..i : response[k] = "}"})

\* _parse_llm_analysis, lines 274-302.
_parse_llm_analysis(response, members) ==
    LET opens == {i \in 1..Len(response) : response[i] = "{"}
    IN IF opens = {} THEN Fallback
       ELSE LET start == CHOOSE i \in opens : \A j \in opens : i <= j
                closes == {i \in start..Len(response) :
                               response[i] = "}" /\ Depth(response, start, i) = 0}
            IN IF closes = {} THEN Fallback
               ELSE LET end == CHOOSE i \in closes : \A j \in closes : i <= j
                        parsed == json_loads(SubSeq(response, start, end), members)
                    IN IF parsed.ok THEN parsed.data ELSE Fallback

\* A CuriousGeorge built with some mail client is handed an error report.
InvestigateInit ==
    /\ WiredEngine
    /\ NoMinder
    /\ NoServices
    /\ call \in [at : {"CuriousGeorge"}, pc : {"start"}, mail : MailClients,
                 source_agent : {"Sage"}, llm_calls : {0},
                 response : {<<>>}, members : {Fallback}, analysis : {Fallback},
                 completion : {NoCompletion}]

\* _execute up to the model's answer: lines 60-136.  The evidence is gathered
\* on a best-effort basis and changes nothing.
InvestigateBegin ==
    /\ call.at = "CuriousGeorge"
    /\ call.pc = "start"
    /\ call' = [call EXCEPT !.pc = "llm", !.llm_calls = @ + 1]
    /\ UNCHANGED <<engineVars, minderVars, serviceVars>>

\* The model answered: lines 137-223.
InvestigateAnswered ==
    /\ call.at = "CuriousGeorge"
    /\ call.pc = "llm"
    /\ \E response \in Answers, members \in Members :
         LET analysis == _parse_llm_analysis(response, members)
             fix_suggested == analysis.fix_suggested = "true"
             target_agent == IF analysis.target_agent = "absent"
                             THEN call.source_agent ELSE analysis.target_agent
             answered == [call EXCEPT !.pc = "returned", !.response = response,
                                      !.members = members, !.analysis = analysis]
         IN IF fix_suggested /\ call.mail # "none"
            THEN /\ outbox' = Append(outbox, Message(call.mail, "CuriousGeorge",
                                                     {target_agent}, "[FIX]", "high"))
                 /\ call' = [answered EXCEPT !.completion =
                               Completion("completed", <<>>, "Fix suggested", "", "")]
            ELSE /\ outbox' = IF call.mail = "none" THEN outbox
                              ELSE Append(outbox,
                                          Message(call.mail, "CuriousGeorge",
                                                  {"Harmbe"}, "[ESCALATION]", "high"))
                 /\ call' = [answered EXCEPT !.completion =
                               Completion("completed", <<>>, "Escalated to Harmbe", "", "")]
    /\ UNCHANGED <<engineVars, minderVars, files, notifications, registry>>

\* The model call raised: the exception leaves _execute.
InvestigateLLMRaised ==
    /\ call.at = "CuriousGeorge"
    /\ call.pc = "llm"
    /\ call' = [call EXCEPT !.pc = "raised"]
    /\ UNCHANGED <<engineVars, minderVars, serviceVars>>

InvestigateNext ==
    InvestigateBegin \/ InvestigateAnswered \/ InvestigateLLMRaised

InvestigateSpec == InvestigateInit /\ [][InvestigateNext]_vars

\* -------------------------------------------------------------- any worker
\* The three workers side by side: a rework, an investigation or a dispatch
\* handled by the base class.
WorkerInit == ReworkInit \/ InvestigateInit \/ HandleInit

WorkerNext == ReworkNext \/ InvestigateNext \/ HandleNext

WorkerSpec == WorkerInit /\ [][WorkerNext]_vars

\* ===================================================== NotificationManager
\* engine/notification_manager.py.  _by_id is a dict: the sequence of its
\* values in insertion order, one per id.  A notification is a record
\* [id, project_key, priority, created_at, read].  _heap is kept as the
\* sequence of what was pushed, each entry by id and project; how heapq
\* arranges the entries is left out, for no method reads the heap.

\* Most notifications pushed.
MaxNotifications == 2

\* The priorities (0 critical, 2 the default), creation times and limits
\* tried.
Priorities == {0, 2}
Times == {0, 1}
Limits == 0..MaxNotifications

NotificationIds == 1..MaxNotifications
Projects == {"proj-a", "proj-b"}

\* Faulty variant of Lt: the priority is not looked at.
LtByAge(self, other) == self.created_at < other.created_at

\* Notification.__lt__, lines 25-29.
Lt(self, other) ==
    IF self.priority # other.priority
    THEN self.priority < other.priority
    ELSE self.created_at < other.created_at

\* sorted(...): a stable sort by __lt__.
RECURSIVE Insert(_, _)
Insert(x, s) ==
    IF s = <<>> THEN <<x>>
    ELSE IF Lt(x, s[Len(s)])
    THEN Append(Insert(x, SubSeq(s, 1, Len(s) - 1)), s[Len(s)])
    ELSE Append(s, x)

RECURSIVE sorted(_)
sorted(s) ==
    IF s = <<>> THEN <<>>
    ELSE Insert(s[Len(s)], sorted(SubSeq(s, 1, Len(s) - 1)))

\* project_key is None or n.project_key == project_key
InProject(n, project_key) == project_key = None \/ n.project_key = project_key

\* get_unread, lines 75-93, for a limit that is not negative.
get_unread_of(by_id, project_key, limit) ==
    LET wanted(n) == ~n.read /\ InProject(n, project_key)
        unread == SelectSeq(sorted(by_id), wanted)
    IN SubSeq(unread, 1, IF limit < Len(unread) THEN limit ELSE Len(unread))

\* self._by_id[notification.id] = notification
Stored(by_id, n) ==
    IF \E i \in DOMAIN by_id : by_id[i].id = n.id
    THEN [i \in DOMAIN by_id |-> IF by_id[i].id = n.id THEN n ELSE by_id[i]]
    ELSE Append(by_id, n)

\* The id uuid4 yields: one that is not in use (the least, ids being
\* interchangeable).
FreshIds ==
    LET free == NotificationIds \ {notifications._by_id[i].id :
                                      i \in DOMAIN notifications._by_id}
    IN IF free = {} THEN {} ELSE {CHOOSE i \in free : \A j \in free : i <= j}

\* No answer of get_unread is at hand.
Idle == [at |-> "idle"]

\* A new manager, nothing asked yet.
NotifyInit ==
    /\ WiredEngine
    /\ ceiling = 1
    /\ NoMinder
    /\ NoServices
    /\ call = Idle

Pushed(n) ==
    notifications' =
        [_by_id |-> Stored(notifications._by_id, n),
         _heap |-> Append(notifications._heap,
                          [id |-> n.id, project_key |-> n.project_key])]

NotifyFrame == UNCHANGED <<engineVars, minderVars, outbox, files, registry>>

\* add(notification), lines 42-47: the caller's notification, with an id of
\* its own (one in use replaces the entry) or none (one is generated).
add ==
    /\ Len(notifications._heap) < MaxNotifications
    /\ \E id \in {notifications._by_id[i].id : i \in DOMAIN notifications._by_id}
                 \cup FreshIds,
          project_key \in Projects, priority \in Priorities,
          created_at \in Times, read \in BOOLEAN :
         Pushed([id |-> id, project_key |-> project_key, priority |-> priority,
                 created_at |-> created_at, read |-> read])
    /\ call' = Idle
    /\ NotifyFrame

\* create(...), lines 49-73: a new unread notification, stamped with the
\* time of the call.
create ==
    /\ Len(notifications._heap) < MaxNotifications
    /\ \E id \in FreshIds, project_key \in Projects,
          priority \in Priorities, created_at \in Times :
         Pushed([id |-> id, project_key |-> project_key, priority |-> priority,
                 created_at |-> created_at, read |-> FALSE])
    /\ call' = Idle
    /\ NotifyFrame

\* mark_read(notification_id), lines 95-103.
mark_read ==
    /\ \E id \in NotificationIds :
         notifications' =
             [notifications EXCEPT !._by_id =
                 [i \in DOMAIN @ |-> IF @[i].id = id
                                     THEN [@[i] EXCEPT !.read = TRUE] ELSE @[i]]]
    /\ call' = Idle
    /\ NotifyFrame

\* mark_all_read(project_key), lines 105-119.
mark_all_read ==
    /\ \E project_key \in Projects \cup {None} :
         notifications' =
             [notifications EXCEPT !._by_id =
                 [i \in DOMAIN @ |-> IF InProject(@[i], project_key)
                                     THEN [@[i] EXCEPT !.read = TRUE] ELSE @[i]]]
    /\ call' = Idle
    /\ NotifyFrame

\* clear_project(project_key), lines 121-130.
clear_project ==
    /\ \E project_key \in Projects :
         LET other(n) == n.project_key # project_key
         IN notifications' = [_by_id |-> SelectSeq(notifications._by_id, other),
                              _heap |-> SelectSeq(notifications._heap, other)]
    /\ call' = Idle
    /\ NotifyFrame

\* get_unread(project_key, limit)
get_unread ==
    /\ \E project_key \in Projects \cup {None}, limit \in Limits :
         call' = [at |-> "get_unread", project_key |-> project_key,
                  limit |-> limit,
                  result |-> get_unread_of(notifications._by_id, project_key, limit)]
    /\ UNCHANGED notifications
    /\ NotifyFrame

NotifyNext ==
    \/ add
    \/ create
    \/ mark_read
    \/ mark_all_read
    \/ clear_project
    \/ get_unread

NotifySpec == NotifyInit /\ [][NotifyNext]_vars

\* ========================================================= ProjectRegistry
\* engine/project_registry.py.  _projects is the dict of ProjectState by key;
\* disk is .gorilla-troop/projects.json: no file, a file json.loads rejects,
\* or a JSON document.  A JSON value is null or a string, a JSON object a
\* function from member names to values.  A file system that refuses the
\* write is not part of this model.

\* The dataclass's fields, lines 21-27.
Fields == {"project_key", "name", "workspace_path", "status",
           "minder_agent_id", "created_at", "paused_at"}

\* What the callers pass: names, paths, the clock's isoformat() strings.
Names == {"Alpha"}
Paths == {"/work/alpha"}
Instants == {"2026-01-01T00:00:00+00:00", "2026-01-02T00:00:00+00:00"}

\* update_project's keyword arguments: one field and its value; "owner" is
\* no field of ProjectState.
Updates ==
    ([field : {"status"}, value : {"active", "paused", "completed"}])
    \cup ([field : {"minder_agent_id"}, value : {None, "ProjectMinder-1"}])
    \cup ([field : {"paused_at"}, value : {None}])
    \cup ([field : {"owner"}, value : {"somebody"}])

NoFile == [kind |-> "absent"]
Undecodable == [kind |-> "undecodable"]

\* Faulty variant of JsonOf: None is written as the string str() gives.
JsonOfStr(value) == [t |-> "string", v |-> IF value = None THEN "None" ELSE value]

\* json.dumps of one field's value: None becomes null, a str a JSON string.
JsonOf(value) == IF value = None THEN [t |-> "null"] ELSE [t |-> "string", v |-> value]

\* json.loads of one value: null becomes None, a JSON string a str.
PyOf(json) == IF json.t = "null" THEN None ELSE json.v

\* json.dumps({k: asdict(v) for k, v in self._projects.items()})
json_dumps(_projects) ==
    [key \in DOMAIN _projects |-> [f \in Fields |-> JsonOf(_projects[key][f])]]

\* ProjectState(**proj_data) accepts the members that are its fields, the
\* three without a default among them.
Constructible(proj_data) ==
    /\ DOMAIN proj_data \subseteq Fields
    /\ {"project_key", "name", "workspace_path"} \subseteq DOMAIN proj_data

ProjectState(proj_data) ==
    [f \in Fields |->
        IF f \in DOMAIN proj_data THEN PyOf(proj_data[f])
        ELSE IF f = "status" THEN "active"
        ELSE IF f = "created_at" THEN ""
        ELSE None]

\* _load, lines 44-54: an absent or rejected file leaves the map empty; of
\* a document the entries are constructed (every entry _save wrote can be).
_load(disk) ==
    IF disk.kind # "json" THEN <<>>
    ELSE [key \in {k \in DOMAIN disk.data : Constructible(disk.data[k])} |->
              ProjectState(disk.data[key])]

\* _save, lines 56-63: the document replaces the file.
_save(_projects) == [kind |-> "json", data |-> json_dumps(_projects)]

\* __init__, lines 36-39, on a workspace with no registry file or a damaged
\* one.
RegistryInit ==
    /\ WiredEngine
    /\ ceiling = 1
    /\ NoMinder
    /\ outbox = <<>>
    /\ files = <<>>
    /\ notifications = [_by_id |-> <<>>, _heap |-> <<>>]
    /\ \E disk \in {NoFile, Undecodable} :
         registry = [_projects |-> _load(disk), disk |-> disk]
    /\ call = [at |-> "__init__"]

RegistryFrame == UNCHANGED <<engineVars, minderVars, outbox, files, notifications>>

\* The map becomes _projects and is saved.
Saved(_projects, at) ==
    /\ registry' = [_projects |-> _projects, disk |-> _save(_projects)]
    /\ call' = [at |-> at]
    /\ RegistryFrame

\* dict[key] = value
Put(map, key, value) ==
    [k \in DOMAIN map \cup {key} |-> IF k = key THEN value ELSE map[k]]

\* create_project, lines 65-92; a key in use raises ValueError.
create_project ==
    \E key \in Projects, name \in Names, workspace_path \in Paths,
       now \in Instants :
        /\ key \notin DOMAIN registry._projects
        /\ Saved(Put(registry._projects, key,
                          [project_key |-> key, name |-> name,
                           workspace_path |-> workspace_path,
                           status |-> "active", minder_agent_id |-> None,
                           created_at |-> now, paused_at |-> None]),
                      "create_project")

\* pause_project, lines 105-117; an unknown key raises KeyError.
pause_project ==
    \E key \in DOMAIN registry._projects, now \in Instants :
        Saved([registry._projects EXCEPT ![key].status = "paused",
                                              ![key].paused_at = now],
                   "pause_project")

\* resume_project, lines 119-131.
resume_project ==
    \E key \in DOMAIN registry._projects :
        Saved([registry._projects EXCEPT ![key].status = "active",
                                              ![key].paused_at = None],
                   "resume_project")

\* update_project, lines 133-145: a keyword that is no attribute is skipped.
update_project ==
    \E key \in DOMAIN registry._projects, kwargs \in Updates :
        Saved(IF kwargs.field \in Fields
                   THEN [registry._projects EXCEPT ![key][kwargs.field] = kwargs.value]
                   ELSE registry._projects,
                   "update_project")

\* delete_project, lines 147-157.
delete_project ==
    \E key \in DOMAIN registry._projects :
        Saved([k \in DOMAIN registry._projects \ {key} |-> registry._projects[k]],
                   "delete_project")

\* A second ProjectRegistry is constructed on the same workspace; the first
\* stays as it is.
reopen ==
    /\ call' = [at |-> "reopen", _projects |-> _load(registry.disk)]
    /\ UNCHANGED registry
    /\ RegistryFrame

RegistryNext ==
    \/ create_project
    \/ pause_project
    \/ resume_project
    \/ update_project
    \/ delete_project
    \/ reopen

RegistrySpec == RegistryInit /\ [][RegistryNext]_vars

\* ==================================================== store unavailability
\* ProjectMinder's operations on a store that may fail.  A call of
\* orchestrator.lib.beads.client raises when bd is absent, exits non-zero or
\* prints what cannot be parsed; each such error is an Exception.  The record
\* threaded through an operation is
\*   m       the supervisor's record (MStart)
\*   fault   which store calls fail
\*   n       the store calls made so far
\*   failed  one of them failed
\*   err     an exception is on its way out
\*   out     the string returned, "" as long as nothing was returned
\* The message bus is not reachable, as in the specifications above: the
\* send in _dispatch_to_chimp and in _recommend_skip fails and is logged.

\* The store has room for one scaffold.
MaxIssues == 8 + 2 * MaxConditional

NoFault == [kind |-> "none", at |-> 0]

\* The store works; or it is out from its at-th call on; or that one call
\* fails.  unharmed is what the operation comes to on a working store: a
\* first failure can only hit one of the calls made then.
Faults(unharmed) ==
    {NoFault} \cup
    [kind : {"outage", "glitch"},
     at : 1..(CHOOSE n \in {x.n : x \in unharmed} :
                 \A x \in unharmed : x.n <= n)]

Fails(fault, n) ==
    \/ fault.kind = "outage" /\ n >= fault.at
    \/ fault.kind = "glitch" /\ n = fault.at

Entered(m, fault) ==
    [m |-> m, fault |-> fault, n |-> 0, failed |-> FALSE, err |-> FALSE, out |-> ""]

\* One call of the store's client: it raises, or the store becomes after
\* (the store itself for a query).
StoreCall(x, after) ==
    IF x.err \/ x.out # "" THEN x
    ELSE IF Fails(x.fault, x.n + 1)
    THEN [x EXCEPT !.n = @ + 1, !.failed = TRUE, !.err = TRUE]
    ELSE [x EXCEPT !.n = @ + 1, !.m.issues = after]

\* except Exception: the error goes no further.
Except(x) == [x EXCEPT !.err = FALSE]

\* return text
Return(x, text) == IF x.err \/ x.out # "" THEN x ELSE [x EXCEPT !.out = text]

\* Faulty variant of _get_ready_issues: the error of ready() is not caught.
_get_ready_issues_unguarded(x) ==
    LET y == StoreCall(x, x.m.issues)
    IN [x |-> y, value |-> IF y.err THEN {} ELSE ready(y.m.issues)]

\* _get_ready_issues, lines 436-443: the ready issues, none when ready()
\* raises.
_get_ready_issues(x) ==
    LET y == StoreCall(x, x.m.issues)
    IN [x |-> Except(y), value |-> IF y.err THEN {} ELSE ready(y.m.issues)]

\* _check_all_done, lines 445-458.
_check_all_done_with_epics(x) ==
    LET y == StoreCall(x, x.m.issues)
    IN [x |-> Except(y),
        value |-> /\ ~y.err
                  /\ \A i \in DOMAIN y.m.issues :
                        y.m.issues[i].status \in {"done", "closed"}]

_check_all_done(x) ==
    LET y == StoreCall(x, x.m.issues)
    IN [x |-> Except(y),
        value |-> /\ ~y.err
                  /\ \A i \in DOMAIN y.m.issues :
                        \/ y.m.issues[i].issue_type = "epic"
                        \/ y.m.issues[i].status \in {"done", "closed"}]

\* _gather_input_artifacts, lines 477-502: a query whose error is logged.
_gather_input_artifacts(x) == Except(StoreCall(x, x.m.issues))

\* _claim_issue, lines 504-510.
_claim_issue(x, issue_id) ==
    Except(StoreCall(x, update_status(x.m.issues, issue_id, "in_progress")))

\* _dispatch_to_chimp, lines 512-559.
_dispatch_to_chimp(x, chimp_type, dispatch) ==
    IF x.err THEN x
    ELSE [x EXCEPT !.m = SpawnInstance(@, chimp_type,
                                       Context({"dispatch"}, dispatch, 0))]

\* _advance_workflow from its choice of next_issue on, lines 312-343.
DispatchIssue(x, next_issue) ==
    LET stage_name == x.m.issues[next_issue].stage
        chimp_type == Get(STAGE_TO_CHIMP, stage_name, None)
    IN IF Falsy(chimp_type) THEN Return(x, "No agent mapped for stage")
       ELSE LET gathered == _gather_input_artifacts(x)
                dispatch == build_dispatch(stage_name, next_issue, None, None)
                claimed == _claim_issue(gathered, next_issue)
            IN Return(_dispatch_to_chimp(claimed, chimp_type, dispatch),
                      "Dispatched")

\* _advance_workflow, lines 277-343: what it may come to.
_advance_workflow(x) ==
    LET r == _get_ready_issues(x)
        d == _check_all_done(r.x)
    IN IF r.x.err THEN {r.x}
       ELSE IF r.value = {}
       THEN {IF d.value
             THEN Return(d.x, "All stages complete. Project finished.")
             ELSE Return(d.x, "No stages ready. Waiting on review gates or Q&A.")}
       ELSE IF Candidates(r.x.m.issues) = {}
       THEN {Return(r.x, "No actionable stages ready. Waiting on dependencies.")}
       ELSE {DispatchIssue(r.x, i) : i \in Candidates(r.x.m.issues)}

\* One store call of the scaffold.
Create(issue) == [op |-> "create_issue", issue |-> issue]
Depend(blocked_id, blocker_id, dep_type) ==
    [op |-> "add_dependency", blocked_id |-> blocked_id,
     blocker_id |-> blocker_id, dep_type |-> dep_type]

Apply(x, step) ==
    IF step.op = "create_issue"
    THEN StoreCall(x, create_issue(x.m.issues, step.issue))
    ELSE StoreCall(x, add_dependency(x.m.issues, step.blocked_id,
                                     step.blocker_id, step.dep_type))

\* The statements of a try block, one after the other.
RECURSIVE Run(_, _)
Run(x, steps) == IF steps = <<>> THEN x ELSE Run(Apply(x, Head(steps)), Tail(steps))

\* Lines 134-157: the three phase epics.
PhaseEpics ==
    << Create(NewIssue("epic", 1, "inception", "", FALSE, <<>>)),
       Create(NewIssue("epic", 1, "construction", "", FALSE, <<>>)),
       Create(NewIssue("epic", 3, "operations", "", FALSE, <<>>)) >>

\* Lines 165-224: the mandatory stages and their gates, the epics being the
\* issues n + 1 to n + 3.
InceptionStages(n) ==
    LET inception_epic == n + 1
        ws_detect == n + 4
        req_analysis == n + 5
        req_review == n + 6
        wf_planning == n + 7
        wp_review == n + 8
        requirements == <<"artifact: requirements.md">>
        plan == <<"artifact: execution-plan.md">>
    IN << Create(NewIssue("task", 1, "inception", "workspace-detection", FALSE, <<>>)),
          Depend(ws_detect, inception_epic, "parent"),
          Create(NewIssue("task", 1, "inception", "requirements-analysis", FALSE,
                          requirements)),
          Depend(req_analysis, inception_epic, "parent"),
          Depend(req_analysis, ws_detect, "blocks"),
          Create(NewIssue("task", 0, "inception", "", TRUE, requirements)),
          Depend(req_review, inception_epic, "parent"),
          Depend(req_review, req_analysis, "blocks"),
          Create(NewIssue("task", 1, "inception", "workflow-planning", FALSE, plan)),
          Depend(wf_planning, inception_epic, "parent"),
          Depend(wf_planning, req_review, "blocks"),
          Create(NewIssue("task", 0, "inception", "", TRUE, plan)),
          Depend(wp_review, inception_epic, "parent"),
          Depend(wp_review, wf_planning, "blocks") >>

\* Lines 246-266: one conditional stage and its gate; an error ends this
\* stage only.
RECURSIVE ConditionalStages(_, _, _)
ConditionalStages(x, inception_epic, k) ==
    IF k > Len(conditional_stages) \/ k > MaxConditional THEN x
    ELSE LET stage == Len(x.m.issues) + 1
             review == Len(x.m.issues) + 2
             tried == Run(x,
                 << Create(NewIssue("task", 2, "inception", conditional_stages[k],
                                    FALSE, <<>>)),
                    Depend(stage, inception_epic, "parent"),
                    Create(NewIssue("task", 0, "inception", "", TRUE, <<>>)),
                    Depend(review, inception_epic, "parent"),
                    Depend(review, stage, "blocks") >>)
         IN ConditionalStages(Except(tried), inception_epic, k + 1)

\* _initialize_project from line 130 on.
ScaffoldedFrom(x) ==
    LET n == Len(x.m.issues)
        epics == Run(x, PhaseEpics)
        stages == Run(epics, InceptionStages(n))
    IN IF epics.err
       THEN {Return(Except(epics),
                    "Initialization failed: could not create phase epics")}
       ELSE IF stages.err
       THEN {Return(Except(stages),
                    "Initialization failed: could not create inception stages")}
       ELSE _advance_workflow(ConditionalStages(stages, n + 1, 1))

\* _initialize_project, lines 94-275.  The guard's try block holds the return
\* of _advance_workflow too.
_initialize_project(x) ==
    LET listed == StoreCall(x, x.m.issues)
    IN IF listed.err THEN ScaffoldedFrom(Except(listed))
       ELSE IF HasOpenInception(listed.m.issues)
       THEN UNION {IF a.err THEN ScaffoldedFrom(Except(a)) ELSE {a} :
                      a \in _advance_workflow(listed)}
       ELSE ScaffoldedFrom(listed)

\* _handle_completion, lines 345-380.
_handle_completion(x, issue_id, completion) ==
    LET updated ==
            IF completion.status \in {"completed", "needs_rework"}
            THEN StoreCall(x, CompletionRecorded(x.m, issue_id, completion).issues)
            ELSE x
    IN IF updated.err THEN {Return(Except(updated), "Error updating issue")}
       ELSE _advance_workflow(updated)

\* _recommend_skip, lines 382-415: no store call.
_recommend_skip(x) == {Return(x, "Skip recommendation sent to Harmbe.")}

\* _check_review_gates, lines 417-434.
_check_review_gates(x) ==
    LET listed == StoreCall(x, x.m.issues)
        gates == {i \in DOMAIN listed.m.issues :
                     listed.m.issues[i].gate /\ listed.m.issues[i].status = "open"}
    IN IF listed.err THEN {Return(Except(listed), "Error checking review gates")}
       ELSE IF gates = {} THEN {Return(listed, "No pending review gates.")}
       ELSE {Return(listed, "**Pending Review Gates:**")}

\* The actions a caller may name without a completion; "restart" is none
\* that _execute knows.
Actions == {"initialize", "advance", "recommend_skip", "check_review_gates",
            "restart"}

\* _execute, lines 62-92.
_execute(x, action) ==
    CASE action = "initialize" -> _initialize_project(x)
      [] action = "advance" -> _advance_workflow(x)
      [] action = "recommend_skip" -> _recommend_skip(x)
      [] action = "check_review_gates" -> _check_review_gates(x)
      [] OTHER -> _advance_workflow(x)

\* How the call ended.
Ended(x, action) ==
    [at |-> action, failed |-> x.failed, raised |-> x.err, result |-> x.out]

OutageFrame ==
    UNCHANGED <<serviceVars, approving, ceiling, runners, shutdown_event,
                shutdown_pc, stop_waiting, raised>>

Bounded(x) == Within(x.m) /\ Len(x.m.issues) <= MaxIssues

\* A caller runs _execute with this action.
execute_action(action) ==
    /\ \E fault \in Faults(_execute(Entered(MStart, NoFault), action)) :
         \E x \in _execute(Entered(MStart, fault), action) :
             Bounded(x) /\ MCommit([x.m EXCEPT !.call = Ended(x, action)])
    /\ UNCHANGED handled
    /\ OutageFrame

\* A caller runs _execute with any action.
execute == \E action \in Actions : execute_action(action)

\* A caller passes on the completion of a dispatched instance: any the
\* instance's runner may return.  The instances' tasks are not followed here.
execute_handle_completion(id) ==
    /\ id \in DOMAIN contexts \ handled
    /\ \E completion \in RunnerResults(contexts[id]) :
         \E fault \in Faults(_handle_completion(Entered(MStart, NoFault),
                                                contexts[id].dispatch.beads_issue_id,
                                                completion)) :
         \E x \in _handle_completion(Entered(MStart, fault),
                                     contexts[id].dispatch.beads_issue_id,
                                     completion) :
             Bounded(x)
             /\ MCommit([x.m EXCEPT !.call = Ended(x, "handle_completion")])
    /\ handled' = handled \cup {id}
    /\ OutageFrame

OutageNext ==
    \/ execute
    \/ \E id \in WorkerIds : execute_handle_completion(id)

\* A new project; the engine's ceiling plays no part.
OutageInit == MinderInit /\ ceiling = 1

OutageSpec == OutageInit /\ [][OutageNext]_vars

\* Most issues in a store the supervisor finds.
MaxFound == 2

\* The issues such a store may hold: epics and stage issues in every status,
\* the later ones blocked by any of the earlier ones.
FoundIssue(issue_type, priority, status, blockers) ==
    [NewIssue(issue_type, priority, "inception",
              IF issue_type = "epic" THEN "" ELSE "workspace-detection",
              FALSE, <<>>)
        EXCEPT !.status = status, !.blockers = blockers]

FoundStores ==
    UNION {{store \in [1..n -> {FoundIssue(t, p, st, b) :
                                   t \in {"epic", "task"}, p \in {1, 2},
                                   st \in {"open", "in_progress", "done", "closed"},
                                   b \in SUBSET (1..(n - 1))}] :
               \A i \in 1..n : store[i].blockers \subseteq 1..(i - 1)} :
           n \in 0..MaxFound}

\* The supervisor comes to a store others have filled and worked on.
FoundInit ==
    /\ \E store \in FoundStores : MinderOn(store)
    /\ ceiling = 1

\* The project was initialized before: callers advance it and pass on
\* completions.
FoundNext ==
    \/ execute_action("advance")
    \/ execute_action("restart")
    \/ \E id \in WorkerIds : execute_handle_completion(id)

FoundSpec == FoundInit /\ [][FoundNext]_vars

\* ================================================================= claims
Terminal == {"stopped", "error"}

Running == {id \in DOMAIN agents : agents[id].status = "running"}

\* The task holds an admission slot: it is inside the try block, or it was
\* woken with the slot and has not resumed yet.
HoldsSlot(t) == t.state = "running" \/ (t.state = "waiting" /\ t.fut = "result")

Registered(id) == agents[id].agent_type \in DOMAIN runners

\* ---------------------------------------------------------------------- C1
\* C1: for every ceiling and every interleaving of the engine's steps, the
\* number of instances whose status is running never exceeds the ceiling.
C1_RunningWithinCeiling == Cardinality(Running) <= ceiling

\* The ceiling is reached while another instance waits for admission.
C1_Witness ==
    /\ Cardinality(Running) = ceiling
    /\ \E id \in DOMAIN tasks :
           tasks[id].state = "waiting" /\ agents[id].status = "starting"

\* ---------------------------------------------------------------------- C2
\* C2: under fair scheduling, with runners that let a cancellation propagate,
\* every spawned instance eventually has status stopped or error, whether or
\* not its runner ever returns on its own and whether or not it had to queue.
C2_EveryInstanceTerminates ==
    \A id \in AgentIds :
        (id \in DOMAIN agents)
            ~> (id \in DOMAIN agents /\ agents[id].status \in Terminal)

\* With one slot, the first instance ran into its deadline and the second,
\* spawned meanwhile, has finished too.
C2_Witness ==
    /\ ceiling = 1
    /\ DOMAIN agents = {1, 2}
    /\ tasks[1].state = "timed_out" /\ agents[1].status = "error"
    /\ TaskDone(tasks[2]) /\ agents[2].status = "stopped"

\* ---------------------------------------------------------------------- C3
\* C3 (as claimed): once an instance's status is stopped or error, no step
\* changes it.
C3_TerminalIsFinal ==
    [][\A id \in DOMAIN agents :
          agents[id].status \in Terminal
              => agents'[id].status = agents[id].status]_vars

\* ---------------------------------------------------------------------- C4
\* The lifecycle diagram's edges.
LifecycleEdges ==
    { <<"starting", "running">>, <<"running", "stopped">>,
      <<"running", "error">>, <<"starting", "stopped">> }

\* What one step of a task can show of the diagram: an edge, or admission
\* followed at once by the runner's return or failure.
LifecyclePaths ==
    LifecycleEdges \cup { <<"starting", "error">> }

\* stop_agent's own edges: any status to stopping, stopping to stopped (seen as
\* error to stopped when the task is done already), and the late write of a
\* runner that outlived its stop or shutdown.
StopEdges ==
    { <<"starting", "stopping">>, <<"running", "stopping">>,
      <<"stopped", "stopping">>, <<"stopping", "stopped">>,
      <<"error", "stopped">>, <<"stopping", "error">>, <<"stopped", "error">> }

StatusChanges(allowed) ==
    \A id \in DOMAIN agents :
        agents'[id].status # agents[id].status
            => <<agents[id].status, agents'[id].status>> \in allowed

C5_NoSpawnAfterShutdown ==
    [][shutdown_event =>
          /\ DOMAIN agents' = DOMAIN agents
          /\ DOMAIN tasks' = DOMAIN tasks
          /\ \A t \in AgentTypes :
                 spawn_agent(t) => /\ raised' = "shutting_down"
                                   /\ UNCHANGED <<agents, tasks, semaphore>>]_vars

\* A spawn was refused while instances exist.
C5_Witness == raised = "shutting_down" /\ DOMAIN agents # {}

\* ---------------------------------------------------------------------- C6
\* C6: when shutdown returns, every instance that was starting or running is
\* set to stopped, and from then on no instance is active (list_active() is
\* empty), whatever the tasks still do.
C6_ShutdownLeavesNoneActive ==
    /\ [](shutdown_pc = "returned"
             => \A id \in DOMAIN agents : ~is_active(agents[id].status))
    /\ [][shutdown_pc # "returned" /\ shutdown_pc' = "returned"
             => \A id \in DOMAIN agents :
                    is_active(agents[id].status)
                        => agents'[id].status = "stopped"]_vars

\* shutdown has returned; one instance was stopped while it ran, another while
\* it waited for admission, and neither task has seen its cancellation yet.
C6_Witness ==
    /\ shutdown_pc = "returned"
    /\ \E i, j \in DOMAIN agents :
           /\ tasks[i].state = "running" /\ tasks[i].cancelReq
           /\ tasks[j].state = "waiting" /\ tasks[j].cancelReq
           /\ agents[i].status = "stopped" /\ agents[j].status = "stopped"

\* ---------------------------------------------------------------------- C7
\* The task of id ends in this step because its deadline, and nothing else,
\* cancelled its runner.
C7_EndsByTimeout(id) ==
    /\ id \in DOMAIN tasks
    /\ tasks[id].state = "running"
    /\ tasks[id].expired /\ ~tasks[id].external
    /\ TaskDone(tasks'[id])

\* The slot is free again or was handed to a waiting task.
C7_SlotPassedOn ==
    \/ semaphore'.value = semaphore.value + 1
    \/ \E j \in DOMAIN tasks :
           tasks[j].fut = "pending" /\ tasks'[j].fut = "result"

\* C7: the deadline runs from admission (it is armed only while the runner
\* runs); a runner cancelled by its deadline leaves the instance in error and
\* passes its slot on; and no runner keeps a slot for ever: every running task
\* ends, and every waiting task leaves the queue.
C7_TimeoutReleasesSlot ==
    /\ [](\A id \in DOMAIN tasks :
             tasks[id].expired => tasks[id].state = "running")
    /\ [][\A id \in AgentIds :
             C7_EndsByTimeout(id)
                 => /\ agents'[id].status = "error"
                    /\ tasks'[id].state = "timed_out"
                    /\ C7_SlotPassedOn]_vars
    /\ \A id \in AgentIds :
           (id \in DOMAIN tasks /\ tasks[id].state \in {"waiting", "running"})
               ~> (id \in DOMAIN tasks /\ TaskDone(tasks[id]))

\* With one slot, the first instance timed out and the second, which had to
\* wait for it, is running.
C7_Witness ==
    /\ ceiling = 1
    /\ DOMAIN agents = {1, 2}
    /\ tasks[1].state = "timed_out" /\ agents[1].status = "error"
    /\ tasks[2].state = "running" /\ agents[2].status = "running"

\* ---------------------------------------------------------------------- C8
\* C8 (as claimed): when a stop_agent call on an instance returns, the
\* instance is stopped and its task holds no admission slot, whatever the
\* runner did with the cancellation.
C8_StopReleasesSlot ==
    [][\A id \in AgentIds :
          stop_agent_resume(id)
              => /\ agents'[id].status = "stopped"
                 /\ ~HoldsSlot(tasks'[id])]_vars

\* ---------------------------------------------------------------------- C9
\* The task of id gets its slot in this step.
C9_Admitted(id) ==
    /\ id \in DOMAIN tasks
    /\ ~TaskDone(tasks[id]) /\ ~tasks[id].cancelReq
    /\ TaskDone(tasks'[id])

\* C9: a spawn that is not refused for shutdown adds a starting instance and
\* raises nothing, whether or not a runner is registered for its type; an
\* instance without a registered runner is never seen running: the step of its
\* task that takes the slot ends the task, leaves the status error and gives
\* the slot back.
C9_MissingRunner ==
    /\ [][\A id \in AgentIds :
             (id \notin DOMAIN agents /\ id \in DOMAIN agents')
                 => /\ agents'[id].status = "starting"
                    /\ tasks'[id] = NewTask
                    /\ raised' = "none"]_vars
    /\ [](\A id \in DOMAIN agents :
             ~Registered(id)
                 => agents[id].status # "running" /\ tasks[id].state # "running")
    /\ [][\A id \in AgentIds :
             (C9_Admitted(id) /\ ~Registered(id))
                 => agents'[id].status = "error"]_vars

\* An instance of the unregistered type ended in error while another instance
\* runs.
C9_Witness ==
    \E i, j \in DOMAIN agents :
        /\ ~Registered(i) /\ agents[i].status = "error" /\ TaskDone(tasks[i])
        /\ agents[j].status = "running"

\* --------------------------------------------------------------------- C10
\* C10: the step in which a runner raises leaves its instance in error, every
\* other instance as it was, and raises nothing into a caller; the only
\* exception that ever leaves a public call is spawn_agent's "shutting down",
\* and only once shutdown has begun.
C10_RunnerErrorContained ==
    /\ [][\A id \in AgentIds :
             RunnerRaise(id)
                 => /\ agents'[id].status = "error"
                    /\ \A j \in DOMAIN agents \ {id} : agents'[j] = agents[j]
                    /\ raised' = raised]_vars
    /\ [](raised \in {"none", "shutting_down"})
    /\ [](raised = "shutting_down" => shutdown_event)

\* A registered runner raised while another instance runs; no call raised.
C10_Witness ==
    \E i, j \in DOMAIN agents :
        /\ Registered(i) /\ agents[i].status = "error"
        /\ tasks[i].state = "done"
        /\ agents[j].status = "running"
        /\ raised = "none"

\* --------------------------------------------------------------------- C15
\* The supported stage set, as the design lists it.
C15_SupportedStages ==
    {"workspace-detection", "reverse-engineering", "requirements-analysis",
     "user-stories", "workflow-planning", "application-design",
     "units-generation", "functional-design", "nfr-requirements", "nfr-design",
     "infrastructure-design", "code-generation", "build-and-test"}

\* C15: the stage-to-worker resolution of build_dispatch is total.  There are
\* 13 mapped stage names; without an assigned_agent override the dispatch of a
\* mapped stage is assigned a type with a registered runner, and the dispatch
\* of any other stage is assigned Troop, which has a registered runner too;
\* the stage looked up is stage_type when the caller passes one and
\* stage_name otherwise; an assigned_agent the caller passes is taken as it is.
C15_ResolutionTotal ==
    /\ DOMAIN STAGE_AGENT_MAP = C15_SupportedStages
    /\ Cardinality(C15_SupportedStages) = 13
    /\ call.at = "built" =>
         LET d == call.dispatch
             stage == IF Falsy(call.stage_type) THEN call.stage_name
                      ELSE call.stage_type
         IN IF Falsy(call.assigned_agent)
            THEN /\ d.assigned_agent \in DOMAIN runners
                 /\ stage \in DOMAIN STAGE_AGENT_MAP
                        => d.assigned_agent = STAGE_AGENT_MAP[stage]
                 /\ stage \notin DOMAIN STAGE_AGENT_MAP
                        => d.assigned_agent = "Troop"
            ELSE d.assigned_agent = call.assigned_agent

\* A dispatch was built for a stage that is not mapped, with no override.
C15_Witness ==
    /\ call.at = "built"
    /\ call.stage_name = "deployment"
    /\ Falsy(call.stage_type) /\ Falsy(call.assigned_agent)
    /\ call.dispatch.assigned_agent = "Troop"

\* --------------------------------------------------------------------- C11
\* The dispatched instances whose worker failed: _execute left with_retry
\* with an exception and handle_dispatch built a failed completion from it.
FailedWorkers == {id \in DOMAIN results : results[id].status = "failed"}

\* C11: when a worker's execute raises a permanent error or runs out of
\* retries, the failure becomes a failed completion and the engine records
\* status error for the instance that ran the worker.
C11_FailureRecordedAsError ==
    \A id \in FailedWorkers :
        /\ results[id].error # ""
        /\ agents[id].status = "error"

\* --------------------------------------------------------------------- C12
\* The instances spawned with a dispatch message.
Dispatched == {id \in DOMAIN contexts : "dispatch" \in contexts[id].keys}

DispatchedIssue(id) == contexts[id].dispatch.beads_issue_id

C13_CompletionHandled ==
    \A id \in WorkerIds :
        (id \in Dispatched /\ results[id].status = "completed")
            ~> (id \in Dispatched /\ issues[DispatchedIssue(id)].status = "done")

\* --------------------------------------------------------------------- C14
\* C14: when the issue advance chose carries a stage name outside the
\* supported set, the issue is claimed and a Troop worker is spawned for it.
C14_UnknownStageDispatched ==
    (/\ call.at = "advance"
     /\ call.next_issue # 0
     /\ issues[call.next_issue].stage \notin C15_SupportedStages)
        => /\ issues[call.next_issue].status # "open"
           /\ \E id \in Dispatched :
                  /\ DispatchedIssue(id) = call.next_issue
                  /\ agents[id].agent_type = "Troop"

\* --------------------------------------------------------------------- C16
\* A first initialize has set the project up.
Scaffolded ==
    \E i \in DOMAIN issues :
        issues[i].issue_type = "epic" /\ issues[i].phase = "inception"

\* The dependencies of the store.
Dependencies(store) ==
    [i \in DOMAIN store |-> <<store[i].parent, store[i].blockers>>]

\* The step is one _advance_workflow could have made.
AsAdvance ==
    \E m \in Advanced(MStart) :
        /\ agents' = m.agents
        /\ tasks' = m.tasks
        /\ semaphore' = m.semaphore
        /\ issues' = m.issues
        /\ contexts' = m.contexts
        /\ results' = m.results
        /\ call'.next_issue = m.call.next_issue
        /\ call'.chimp_type = m.call.chimp_type

DispatchedStage(id) == contexts[id].dispatch.stage_name

\* C17: the inception chain is gated by the dependency graph.  A worker is
\* dispatched for requirements-analysis only when workspace-detection, which
\* blocks it, is done, and for workflow-planning only when the review gate
\* that blocks it is done and carries the operator's approval.
C17_ChainGated ==
    \A id \in Dispatched :
        LET i == DispatchedIssue(id) IN
        /\ DispatchedStage(id) = "requirements-analysis" =>
               \E b \in issues[i].blockers :
                   /\ issues[b].stage = "workspace-detection"
                   /\ issues[b].status = "done"
        /\ DispatchedStage(id) = "workflow-planning" =>
               \E b \in issues[i].blockers :
                   /\ issues[b].gate
                   /\ issues[b].status = "done"
                   /\ \E k \in DOMAIN issues[b].notes :
                          issues[b].notes[k] = Approved("")

\* Workflow-planning was dispatched, after the operator approved the gate.
C17_Witness ==
    \E id \in Dispatched :
        /\ DispatchedStage(id) = "workflow-planning"
        /\ issues[DispatchedIssue(id)].status = "in_progress"

\* Requirements-analysis was dispatched, after workspace-detection was done.
C17_AnalysisDispatched ==
    \E id \in Dispatched : DispatchedStage(id) = "requirements-analysis"

\* --------------------------------------------------------------------- C18
\* The store once handle_completion has recorded a completed stage.
StageDone(i) == update_status(issues, i, "done")

\* A worker was spawned in this step for a ready issue of the given store.
DispatchedFrom(store) ==
    \E id \in DOMAIN contexts' \ DOMAIN contexts :
        /\ "dispatch" \in contexts'[id].keys
        /\ contexts'[id].dispatch.beads_issue_id \in Candidates(store)
        /\ issues'[contexts'[id].dispatch.beads_issue_id].status = "in_progress"

\* Every ready stage of the store has a worker type.
AllMapped(store) ==
    /\ Candidates(store) # {}
    /\ \A c \in Candidates(store) : store[c].stage \in DOMAIN STAGE_TO_CHIMP

\* C18: handle_completion with status completed sets the issue to done and
\* appends "Completed: <summary>" and one artifact line per artifact; with
\* status needs_rework it appends "NEEDS REWORK: <reason>" and leaves the
\* status as it is; after either it runs advance, which dispatches a ready
\* stage if there is one.
C18_CompletionEffects ==
    [][\A id \in WorkerIds :
          handle_completion(id) =>
              LET i == DispatchedIssue(id)
                  r == results[id]
              IN /\ r.status = "completed" =>
                        /\ issues'[i].status = "done"
                        /\ Len(issues'[i].notes) =
                               Len(issues[i].notes) + 1 + r.artifacts
                        /\ SubSeq(issues'[i].notes, 1, Len(issues[i].notes)) =
                               issues[i].notes
                        /\ issues'[i].notes[Len(issues[i].notes) + 1] =
                               "Completed: summary"
                        /\ \A k \in 1..r.artifacts :
                               issues'[i].notes[Len(issues[i].notes) + 1 + k] =
                                   "artifact: produced"
                        /\ AllMapped(StageDone(i)) => DispatchedFrom(StageDone(i))
                 /\ r.status = "needs_rework" =>
                        /\ issues'[i].status = issues[i].status
                        /\ issues'[i].notes =
                               issues[i].notes \o <<"NEEDS REWORK: reason">>
                        /\ AllMapped(issues) => DispatchedFrom(issues)
                 /\ call'.at = "handle_completion"]_vars

\* handle_completion recorded a completed stage with an artifact and its
\* advance dispatched the next stage.
C18_Witness ==
    /\ call.at = "handle_completion"
    /\ call.next_issue # 0
    /\ issues[call.next_issue].status = "in_progress"
    /\ \E id \in handled :
           /\ results[id].status = "completed"
           /\ results[id].artifacts = MaxArtifacts
           /\ issues[DispatchedIssue(id)].status = "done"
           /\ issues[DispatchedIssue(id)].notes[Len(issues[DispatchedIssue(id)].notes)]
                  = "artifact: produced"

\* handle_completion recorded a stage that needs rework.
C18_ReworkRecorded ==
    /\ call.at = "handle_completion"
    /\ \E id \in handled :
           /\ results[id].status = "needs_rework"
           /\ issues[DispatchedIssue(id)].status = "in_progress"

\* --------------------------------------------------------------------- C19
\* The instance approve_review spawned is about to run and every ready stage
\* has a worker type.
AdvanceDue(id) ==
    /\ id \in DOMAIN contexts
    /\ "approved_review_id" \in contexts[id].keys
    /\ issues[contexts[id].ref].status = "done"
    /\ agents[id].status = "starting"
    /\ AllMapped(issues)

\* C19: after the operator approves a review gate the gate is done and an
\* advance runs that dispatches a ready stage: once the instance spawned by
\* the approval is there, one more worker is dispatched.
C19_ApprovalAdvances ==
    \A id \in WorkerIds : \A n \in 0..MaxWorkers :
        (AdvanceDue(id) /\ Cardinality(Dispatched) = n)
            ~> (Cardinality(Dispatched) > n)

\* What became of the instance the approval spawned: its runner found neither
\* a dispatch nor a prompt in the context.
C19_SupervisorIdle ==
    \E id \in DOMAIN contexts :
        /\ "approved_review_id" \in contexts[id].keys
        /\ agents[id].agent_type = "ProjectMinder"
        /\ results[id].status = "no_dispatch"

\* --------------------------------------------------------------------- C20
\* C20: after a rejection with feedback F the gate carries "REJECTED: F" and
\* a rework worker was spawned with the gate's id, the feedback, the artifact
\* path and the retry count, and that worker carries the rework out: it does
\* not end in error.
C20_ReworkExecuted ==
    \A id \in Reworkers :
        /\ \E k \in DOMAIN issues[contexts[id].ref].notes :
               issues[contexts[id].ref].notes[k]
                   \in {Rejected(f) : f \in FeedbackInputs}
        /\ {"review_gate_id", "feedback", "artifact_path", "retry_count"}
               \subseteq contexts[id].keys
        /\ agents[id].status # "error"

\* The rework worker as the engine left it: no runner is registered for its
\* type.
C20_ReworkerFailed ==
    \E id \in Reworkers :
        /\ agents[id].status = "error"
        /\ agents[id].agent_type \notin DOMAIN runners

\* ---------------------------------------------------------------------- C27
\* C27: with_retry with max attempts N >= 1 calls the operation at most N
\* times; a call after the first is made only after a retriable error of the
\* call before it; it returns the result of the first call that succeeds and
\* calls no more; it raises the error of its last call, and does so right after
\* a non-retriable error or after the N-th retriable one, without sleeping.
C27_RetryBounded ==
    call.at = "with_retry" =>
        /\ call.calls <= call.max_retries
        /\ \A k \in 1..(call.calls - 1) : call.func[k] = "transient"
        /\ call.pc = "returned" =>
              call.func[call.calls] = "ok" /\ call.result = call.calls
        /\ call.pc = "raised" =>
              /\ call.error = call.calls
              /\ \/ call.func[call.calls] = "permanent"
                 \/ /\ call.func[call.calls] = "transient"
                    /\ call.calls = call.max_retries
        /\ call.pc \in {"sleep", "cancelled"} =>
              /\ call.func[call.calls] = "transient"
              /\ call.calls < call.max_retries
        /\ (call.pc = "try" /\ call.calls > 0) => call.calls < call.max_retries

\* The last allowed attempt of several failed with a retriable error and the
\* error left with_retry.
C27_Witness ==
    /\ call.at = "with_retry"
    /\ call.pc = "raised"
    /\ call.max_retries = MAX_RETRIES
    /\ call.calls = call.max_retries
    /\ call.func[call.calls] = "transient"

\* ---------------------------------------------------------------------- C22
\* The send_message calls addressed to an identity.
SentTo(identity) == {i \in DOMAIN outbox : identity \in outbox[i].to}

\* A rework request whose budget is spent came back from Gibbon._execute.
ExhaustedReturned ==
    /\ call.at = "Gibbon"
    /\ call.pc = "returned"
    /\ RetryCount(call.request) >= MAX_REWORK_ITERATIONS

\* C22: for every rework request whose retry_count is at least the maximum (3)
\* the rework worker escalates at once: no LLM call, no write of the artifact,
\* one high-importance message to the human supervisor (Harmbe), and a
\* completion with status needs_rework that says the budget is exhausted.
C22_ExhaustedEscalates ==
    ExhaustedReturned =>
        /\ call.llm_calls = 0
        /\ call.writes = 0
        /\ files = call.before
        /\ Cardinality(SentTo("Harmbe")) = 1
        /\ \A i \in SentTo("Harmbe") : outbox[i].importance = "high"
        /\ call.completion.status = "needs_rework"
        /\ call.completion.summary =
              "Rework exhausted after 3 iterations. Escalated to Harmbe."

\* What Gibbon does hold to for such a request: the model is never asked and
\* the artifact is never written.
C22_NoReworkWhenExhausted ==
    ExhaustedReturned =>
        call.llm_calls = 0 /\ call.writes = 0 /\ files = call.before

\* A well-formed request with a spent budget, handled by a worker built as
\* create_app builds it, was answered needs_rework and nobody was told.
C22_SilentEscalation ==
    /\ ExhaustedReturned
    /\ call.request.artifact_path # ""
    /\ call.request.feedback # ""
    /\ call.mail = "none"
    /\ call.completion.status = "needs_rework"
    /\ outbox = <<>>

\* ---------------------------------------------------------------------- C23
ReworkReturned == call.at = "Gibbon" /\ call.pc = "returned"

\* The request lacks what a rework needs, the artifact file counted in.
ReworkImpossible ==
    \/ call.request.artifact_path = ""
    \/ call.request.feedback = ""
    \/ call.before[Artifact].kind = "missing"

\* The answer of the model was empty once its fences were taken off.
EmptyAnswer ==
    call.llm_calls > 0 /\ strip(_strip_code_fences(call.response)) = <<>>

\* Whatever was written is the completion's only output and is not empty.
WriteReported ==
    call.writes > 0 =>
        /\ call.completion.status = "completed"
        /\ call.completion.output_artifacts = <<call.request.artifact_path>>
        /\ strip(files[call.request.artifact_path].text) # <<>>

Untouched == call.writes = 0 /\ files = call.before

C23_WitnessEmpty ==
    /\ ReworkReturned
    /\ call.response = <<"F", "n", "F">>
    /\ call.completion.status = "failed"
    /\ Untouched

\* ---------------------------------------------------------------------- C26
\* handle_dispatch came back with a completion.
Handled == call.at = "handle_dispatch" /\ call.pc = "returned"

\* The error reports on the bus: what was sent to the Error Investigator.
ErrorReports == SentTo("CuriousGeorge")

\* The completion handle_dispatch builds from the error that left with_retry.
FailedCompletion ==
    /\ call.completion.status = "failed"
    /\ call.completion.stage_name = call.dispatch.stage_name
    /\ call.completion.beads_issue_id = call.dispatch.beads_issue_id
    /\ call.completion.error_detail = ErrorText(call.calls)

\* C26: handle_dispatch never raises: if _execute succeeds, possibly after
\* retries, its completion is returned and no error report is sent; if it
\* finally fails, exactly one high-importance error report is sent to the
\* Error Investigator (CuriousGeorge) and the completion returned is failed,
\* carries the dispatch's stage name and issue id and the error detail, even
\* when sending the report fails.
C26_FailureReported ==
    /\ (call.at = "with_retry" /\ call.caller = "handle_dispatch"
          /\ call.pc \in {"returned", "raised"}) =>
            ENABLED (HandleReturn \/ HandleFailure)
    /\ Handled =>
          IF call.func[call.calls] = "ok"
          THEN /\ call.completion = Executed(call.dispatch, call.calls)
               /\ outbox = <<>>
          ELSE /\ Cardinality(ErrorReports) = 1
               /\ Len(outbox) = 1
               /\ \A i \in ErrorReports : outbox[i].importance = "high"
               /\ FailedCompletion

\* What handle_dispatch does hold to: the completion, and never more than one
\* report, none after a success.
C26_FailureReturned ==
    Handled =>
        IF call.func[call.calls] = "ok"
        THEN call.completion = Executed(call.dispatch, call.calls) /\ outbox = <<>>
        ELSE /\ Len(outbox) <= 1
             /\ (call.mail # "none") => Cardinality(ErrorReports) = 1
             /\ FailedCompletion

\* A worker built as create_app builds it failed for good and nothing was
\* reported.
C26_SilentFailure ==
    /\ Handled
    /\ call.mail = "none"
    /\ call.completion.status = "failed"
    /\ outbox = <<>>

\* ---------------------------------------------------------------------- C24
Investigated == call.at = "CuriousGeorge" /\ call.pc = "returned"

\* The worker the fix is meant for: the named target, else the source.
Target ==
    IF call.analysis.target_agent = "absent"
    THEN call.source_agent ELSE call.analysis.target_agent

\* C24: each investigation sends exactly one message: with fix_suggested true
\* in the parsed analysis a high-importance fix message to the named target
\* (or the source worker) and nothing to the human supervisor (Harmbe);
\* otherwise, also when the answer cannot be parsed, an escalation to the human
\* supervisor and nothing to the source worker.  The completion is completed
\* in both cases.
C24_OneMessage ==
    Investigated =>
        /\ Len(outbox) = 1
        /\ call.completion.status = "completed"
        /\ IF call.analysis.fix_suggested = "true"
           THEN /\ outbox[1].to = {Target}
                /\ outbox[1].subject = "[FIX]"
                /\ outbox[1].importance = "high"
                /\ SentTo("Harmbe") = {}
           ELSE /\ outbox[1].to = {"Harmbe"}
                /\ outbox[1].subject = "[ESCALATION]"
                /\ SentTo(call.source_agent) = {}

\* What the investigator does hold to: completed, at most one message, of the
\* kind the analysis calls for, and one whenever it has a mail client.
C24_AtMostOneMessage ==
    Investigated =>
        /\ Len(outbox) <= 1
        /\ (call.mail # "none") => Len(outbox) = 1
        /\ call.completion.status = "completed"
        /\ \A i \in DOMAIN outbox :
              /\ outbox[i].importance = "high"
              /\ IF call.analysis.fix_suggested = "true"
                 THEN outbox[i].subject = "[FIX]" /\ outbox[i].to = {Target}
                 ELSE outbox[i].subject = "[ESCALATION]" /\ outbox[i].to = {"Harmbe"}

\* An investigator built as create_app builds it found a fix and told nobody.
C24_SilentFix ==
    /\ Investigated
    /\ call.mail = "none"
    /\ call.analysis.fix_suggested = "true"
    /\ outbox = <<>>
    /\ call.completion.summary = "Escalated to Harmbe"

\* ---------------------------------------------------------------------- C25
\* A worker ended on a condition it cannot recover from: the rework budget is
\* exhausted, the investigator escalates, or handle_dispatch gave up.
NonRecoverable ==
    \/ ReworkReturned /\ call.completion.status = "needs_rework"
    \/ Investigated /\ call.analysis.fix_suggested # "true"
    \/ Handled /\ call.completion.status = "failed"

\* C25: every non-recoverable condition produces a notification of priority
\* at most 1 in the notification queue and an escalation message to the human
\* supervisor (Harmbe), and the originating issue is not closed.
C25_UserVisibleFailure ==
    NonRecoverable =>
        /\ \E i \in DOMAIN notifications._by_id :
              notifications._by_id[i].priority <= 1
        /\ SentTo("Harmbe") # {}
        /\ \A i \in DOMAIN issues : issues[i].status # "done"

\* What holds: no worker writes to the issue store, and none to the queue.
C25_NothingQueued ==
    /\ notifications._by_id = <<>>
    /\ issues = <<>>

\* handle_dispatch gave up with a mail client at hand: the report went to the
\* Error Investigator, nothing to the human supervisor, nothing was queued.
C25_FailureUnseen ==
    /\ Handled
    /\ call.completion.status = "failed"
    /\ call.mail = "up"
    /\ SentTo("Harmbe") = {}
    /\ notifications._by_id = <<>>

\* ---------------------------------------------------------------------- C21
\* retry_count as Gibbon._execute reads it from what the instance was given:
\* 0 when the context has none.
ReceivedRetryCount(id) ==
    IF "retry_count" \in contexts[id].keys THEN contexts[id].retry_count ELSE 0

\* C21: across the rejections of one review gate the retry count grows by one
\* per cycle, so that the rework worker asks the model at most 3 times for
\* that gate and every later rejection escalates: of two rework workers
\* spawned for the same gate one after the other, the later one is given the
\* retry count of the earlier one plus one.
C21_ReworkBounded ==
    \A a \in Reworkers : \A b \in Reworkers :
        (/\ a < b
         /\ contexts[a].ref = contexts[b].ref
         /\ ~ \E c \in Reworkers :
                a < c /\ c < b /\ contexts[c].ref = contexts[a].ref)
        => ReceivedRetryCount(b) = ReceivedRetryCount(a) + 1

\* One gate was rejected twice and both rework workers start from zero.
C21_CountStuck ==
    \E a \in Reworkers : \E b \in Reworkers :
        /\ a < b
        /\ contexts[a].ref = contexts[b].ref
        /\ ReceivedRetryCount(a) = 0
        /\ ReceivedRetryCount(b) = 0
        /\ ReceivedRetryCount(b) < MAX_REWORK_ITERATIONS

\* ---------------------------------------------------------------------- C28
\* More urgent: a lower priority number, and of two alike the older one.
MoreUrgent(a, b) ==
    \/ a.priority < b.priority
    \/ a.priority = b.priority /\ a.created_at < b.created_at

\* The unread notifications get_unread was asked for.
Asked ==
    {i \in DOMAIN notifications._by_id :
        /\ ~notifications._by_id[i].read
        /\ call.project_key \in {None, notifications._by_id[i].project_key}}

\* C28: after any sequence of add, create, mark_read, mark_all_read and
\* clear_project, get_unread(project, limit) returns only unread notifications,
\* only those of the project when one is given, ordered by priority ascending
\* and then creation time ascending, and they are the up-to-limit most urgent
\* unread ones: as many as the limit allows, each returned once, and none left
\* out that is more urgent than one returned.
C28_MostUrgentUnread ==
    call.at = "get_unread" =>
        LET result == call.result
            returned == {result[k].id : k \in DOMAIN result}
        IN /\ \A k \in DOMAIN result :
                 \E i \in Asked : notifications._by_id[i] = result[k]
           /\ \A k \in DOMAIN result : \A l \in DOMAIN result :
                 k < l => ~MoreUrgent(result[l], result[k]) /\ result[k].id # result[l].id
           /\ Len(result) = IF call.limit < Cardinality(Asked)
                            THEN call.limit ELSE Cardinality(Asked)
           /\ \A i \in Asked :
                 notifications._by_id[i].id \notin returned =>
                     \A k \in DOMAIN result :
                         ~MoreUrgent(notifications._by_id[i], result[k])

\* The limit cut the answer short, and a later notification of higher
\* priority came first.
C28_Witness ==
    /\ call.at = "get_unread"
    /\ call.limit = 1
    /\ Cardinality(Asked) = 2
    /\ Len(call.result) = 1
    /\ \E i \in Asked : i > 1 /\ notifications._by_id[i] = call.result[1]
    /\ \E i \in Asked : MoreUrgent(call.result[1], notifications._by_id[i])

\* ---------------------------------------------------------------------- C29
\* C29: after any sequence of create, pause, resume, update and delete, a new
\* registry opened on the same workspace loads exactly the project map the
\* first holds in memory: the same keys, and for each key the same value of
\* every field.
C29_RoundTrip ==
    call.at = "reopen" =>
        /\ DOMAIN call._projects = DOMAIN registry._projects
        /\ \A key \in DOMAIN registry._projects : \A f \in Fields :
              call._projects[key][f] = registry._projects[key][f]

\* A registry is reopened that holds two projects, one of them paused with
\* its pause time set, the other with no pause time and a minder set.
C29_Witness ==
    /\ call.at = "reopen"
    /\ DOMAIN call._projects = Projects
    /\ \E key \in Projects :
         /\ registry._projects[key].status = "paused"
         /\ registry._projects[key].paused_at # None
    /\ \E key \in Projects :
         /\ registry._projects[key].paused_at = None
         /\ registry._projects[key].minder_agent_id # None

\* ---------------------------------------------------------------------- C30
\* The strings the supervisor's operations return.
Diagnostics ==
    {"All stages complete. Project finished.",
     "No stages ready. Waiting on review gates or Q&A.",
     "No actionable stages ready. Waiting on dependencies.",
     "No agent mapped for stage", "Dispatched",
     "Initialization failed: could not create phase epics",
     "Initialization failed: could not create inception stages",
     "Error updating issue", "Skip recommendation sent to Harmbe.",
     "No pending review gates.", "**Pending Review Gates:**",
     "Error checking review gates"}

\* An operation of the supervisor has ended.
Operated == call.at \in Actions \cup {"handle_completion"}

\* C30: no supervisor operation (initialize, advance, handle_completion,
\* recommend_skip, check_review_gates, or an unknown action) raises, whichever
\* store calls fail: no exception leaves it to stop the caller's loop, and it
\* ends by returning one of its strings.
C30_NeverRaises ==
    Operated =>
        /\ ~call.raised
        /\ call.result \in Diagnostics

\* initialize ended on a store that failed in the middle of the mandatory
\* stages.
C30_Witness ==
    /\ call.at = "initialize"
    /\ call.failed
    /\ call.result = "Initialization failed: could not create inception stages"
    /\ Len(issues) > 3

\* ---------------------------------------------------------------------- C40
\* with_retry has returned or an exception has left it.
RetryEnded == call.at = "with_retry" /\ call.pc \in {"returned", "raised"}

\* C40: for every max_retries >= 0, every exception that leaves with_retry is
\* one the wrapped operation raised, and with_retry never returns or fails
\* without having called the operation at least once.
C40_OperationCalled ==
    RetryEnded =>
        /\ call.calls >= 1
        /\ call.pc = "raised" =>
              call.error \in 1..call.calls /\ call.func[call.error] # "ok"

\* What holds for max_retries >= 1.
C40_OperationCalledFromOne ==
    (RetryEnded /\ call.max_retries >= 1) =>
        /\ call.calls >= 1
        /\ call.pc = "raised" =>
              call.error \in 1..call.calls /\ call.func[call.error] # "ok"

\* max_retries = 0: with_retry failed with a TypeError and the operation was
\* never called.
C40_NeverCalled ==
    /\ RetryEnded
    /\ call.max_retries = 0
    /\ call.calls = 0
    /\ call.pc = "raised"
    /\ call.error = TypeError

\* ---------------------------------------------------------------------- C39
\* C39: the supervisor's stage-to-worker table and the dispatch envelope's
\* table agree on all thirteen supported stages, so the worker type advance
\* spawns always equals the assigned_agent of the dispatch it hands over.
C39_TablesAgree ==
    /\ Cardinality(DOMAIN STAGE_TO_CHIMP) = 13
    /\ DOMAIN STAGE_TO_CHIMP = DOMAIN STAGE_AGENT_MAP
    /\ \A stage \in DOMAIN STAGE_TO_CHIMP :
          STAGE_TO_CHIMP[stage] = STAGE_AGENT_MAP[stage]
    /\ \A id \in Dispatched :
          agents[id].agent_type = contexts[id].dispatch.assigned_agent

\* advance has spawned workers for two stages of different worker types, one
\* of them of the construction phase.
C39_Witness ==
    \E a \in Dispatched, b \in Dispatched :
        /\ agents[a].agent_type # agents[b].agent_type
        /\ contexts[a].dispatch.stage_name = "functional-design"
        /\ agents[a].agent_type = "Sage"

\* ---------------------------------------------------------------------- C31
\* Every issue that is no epic is done or closed.
AllDone(store) ==
    \A i \in DOMAIN store :
        store[i].issue_type = "epic" \/ store[i].status \in {"done", "closed"}

\* This step is an advance on a store that answers, whose ready set is empty.
AdvancedOnNothingReady ==
    /\ call'.at \in {"advance", "restart"}
    /\ ~call'.failed
    /\ ready(issues) = {}

\* C31: when the ready set is empty, advance reports completion if and only
\* if every non-epic issue in the store is done or closed, and otherwise
\* reports that it waits on review gates or Q&A; either way no issue changes
\* and no instance is spawned.
C31_CompleteOrBlocked ==
    [][AdvancedOnNothingReady =>
         /\ call'.result = IF AllDone(issues)
                           THEN "All stages complete. Project finished."
                           ELSE "No stages ready. Waiting on review gates or Q&A."
         /\ issues' = issues
         /\ agents' = agents
         /\ contexts' = contexts]_vars

\* advance found nothing ready in a store with an open stage whose blocker
\* is still worked on, and reported that it waits.
C31_Witness ==
    /\ call.at = "advance"
    /\ ~call.failed
    /\ call.result = "No stages ready. Waiting on review gates or Q&A."
    /\ ready(issues) = {}
    /\ \E i \in DOMAIN issues :
          /\ issues[i].status = "open"
          /\ \E b \in issues[i].blockers : issues[b].status = "in_progress"

\* advance found nothing ready in a store that holds finished issues only,
\* and reported completion.
C31_WitnessComplete ==
    /\ call.at = "advance"
    /\ ~call.failed
    /\ call.result = "All stages complete. Project finished."
    /\ issues # <<>>
    /\ \E i \in DOMAIN issues : issues[i].status = "closed"

\* ---------------------------------------------------------------------- C32
\* C32: an advance run for a project claims and dispatches only that
\* project's issues: an issue of another project is never claimed and no
\* instance is dispatched for it.
C32_OwnIssuesOnly ==
    [][/\ \A i \in DOMAIN issues :
             issues[i].project # _project_key /\ issues[i].status # "in_progress"
                 => issues'[i].status # "in_progress"
       /\ \A id \in DOMAIN contexts' \ DOMAIN contexts :
             "dispatch" \in contexts'[id].keys
                 => issues'[contexts'[id].dispatch.beads_issue_id].project
                        = _project_key]_vars

\* ---------------------------------------------------------------------- C33
\* The ready issues that carry a stage label.
ReadyStages(store) == {i \in ready(store) : store[i].stage # ""}

\* The issues for which this step spawned an instance.
NewlyDispatched ==
    {contexts'[id].dispatch.beads_issue_id :
        id \in {n \in DOMAIN contexts' \ DOMAIN contexts :
                   "dispatch" \in contexts'[n].keys}}

\* The issues this step marked in progress.
NewlyClaimed ==
    {i \in DOMAIN issues :
        issues[i].status # "in_progress" /\ issues'[i].status = "in_progress"}

C33_WitnessEpicSkipped ==
    /\ call.at = "advance"
    /\ ~call.failed
    /\ \E id \in Dispatched :
          LET i == DispatchedIssue(id)
          IN /\ issues[i].status = "in_progress"
             /\ \E e \in ready(issues) :
                   issues[e].stage = "" /\ issues[e].priority <= issues[i].priority

\* ---------------------------------------------------------------------- C34
\* C34: advance marks the issue in progress in the store before it spawns the
\* worker: a worker is spawned for an issue only if the issue is in progress
\* in the store at the moment of the spawn.
C34_SpawnedInProgress ==
    [][\A i \in NewlyDispatched : issues'[i].status = "in_progress"]_vars

\* ---------------------------------------------------------------------- C35
\* This step admitted the instance and its runner is suspended at an await.
AdmittedNow(id) ==
    /\ id \in DOMAIN tasks
    /\ tasks[id].state \in {"created", "waiting"}
    /\ tasks'[id].state = "running"

\* C35: register_runner is idempotent and the latest registration wins.
\* After a registration the type's runner is the one just given; registering
\* it a second time changes nothing; an instance executes the runner that is
\* registered for its type at the moment it is admitted, whatever was
\* registered when it was spawned, and keeps executing it when the type is
\* registered anew afterwards.
C35_LatestRegistrationWins ==
    [][/\ call'.at = "register_runner" /\ call' # call =>
              /\ runners'[call'.agent_type] = call'.runner
              /\ \A t \in DOMAIN runners \ {call'.agent_type} :
                    runners'[t] = runners[t]
       /\ /\ call'.at = "register_runner" /\ call' # call
          /\ call'.agent_type \in DOMAIN runners
          /\ runners[call'.agent_type] = call'.runner
          => runners' = runners
       /\ \A id \in DOMAIN tasks :
              /\ AdmittedNow(id) =>
                    tasks'[id].runner = runners[agents[id].agent_type]
              /\ tasks[id].state = "running" /\ tasks'[id].state = "running" =>
                    tasks'[id].runner = tasks[id].runner]_vars

\* An instance was spawned, its type was then registered with another runner
\* (or with its first one) while it was still starting, and it was admitted
\* and executes the runner registered last.
C35_Witness ==
    /\ call.at = "register_runner"
    /\ \E id \in call.starting :
          /\ tasks[id].state = "running"
          /\ tasks[id].runner = call.runner

\* ---------------------------------------------------------------------- C36
\* The instances that hold a slot: those admitted whose _run_agent has not
\* reached the end of its finally block, and those woken in acquire(), for
\* whom the slot is already taken.
SlotHolders ==
    {id \in DOMAIN tasks :
        \/ tasks[id].state = "running"
        \/ tasks[id].state = "waiting" /\ tasks[id].fut = "result"}

\* C36: admission slots are conserved.  The free slots and the slots held
\* add up to the ceiling in every state: an admitted instance gives its slot
\* back exactly once when it ends, by return, raise, timeout or cancellation,
\* an instance cancelled while it waits for admission gives back nothing, and
\* the number of free slots stays between 0 and the ceiling.
C36_SlotsConserved ==
    /\ semaphore.value + Cardinality(SlotHolders) = ceiling
    /\ semaphore.value \in 0..ceiling

\* Every slot is free again after one instance ran into its timeout and
\* another was cancelled by stop_agent, which has not resumed yet.
C36_Witness ==
    /\ semaphore.value = ceiling
    /\ \E id \in DOMAIN tasks :
          /\ tasks[id].state = "timed_out"
          /\ \E other \in DOMAIN tasks \ {id} :
                tasks[other].state = "done" /\ agents[other].status = "stopping"

\* ---------------------------------------------------------------------- C37
\* C37: every issue that advance marks in progress gets a worker: no issue is
\* in progress in the store without an instance spawned for it, also when the
\* engine is shutting down.
C37_ClaimedHasWorker ==
    \A i \in DOMAIN issues :
        issues[i].status = "in_progress" =>
            \E id \in Dispatched : DispatchedIssue(id) = i

\* ---------------------------------------------------------------------- C38
\* The review gate of workflow-planning is done and carries the operator's
\* approval.
PlanningApproved ==
    \E g \in DOMAIN issues :
        /\ issues[g].gate
        /\ \E b \in issues[g].blockers : issues[b].stage = "workflow-planning"
        /\ issues[g].status = "done"
        /\ \E k \in DOMAIN issues[g].notes : issues[g].notes[k] = Approved("")

\* C38: a conditional inception stage created by initialize is not dispatched
\* by advance before the review gate of workflow-planning has been approved.
C38_ConditionalGated ==
    \A id \in Dispatched :
        (\E k \in DOMAIN conditional_stages :
            DispatchedStage(id) = conditional_stages[k]) => PlanningApproved

====
